---- MODULE Spec2Model ----
(***************************************************************************)
(* The cloud-provider proxy of gtk/gtkcloudprovider.c talking over the     *)
(* session bus to provider daemons, one of them the example daemon of      *)
(* tests/testcloudproviderserver.c.                                        *)
(*                                                                         *)
(* A GtkCloudProvider instance is created by gtk_cloud_provider_new, which *)
(* starts an asynchronous GDBusProxy construction; on_proxy_created stores *)
(* the proxy and calls gtk_cloud_provider_update, which issues one GetName *)
(* and one GetStatus call; on_get_name / on_get_status store the reply and *)
(* emit "changed".  All callbacks run on one main loop, so every handler   *)
(* is one atomic step; the asynchronous operations in flight are state.    *)
(***************************************************************************)
EXTENDS Integers, FiniteSets, Sequences, TLC

(***************************************************************************)
(* Bounds of the model.                                                    *)
(***************************************************************************)
\* Calls of gtk_cloud_provider_update made on one instance by its users
\* (the call made by on_proxy_created is not counted).
MaxUpdates == 1
\* A daemon that is not the example daemon replies to GetStatus with any
\* int32 of 0..MaxReplyInt.
MaxReplyInt == 4
\* Times the example daemon's timer (change_provider) fires.
MaxTicks == 1
MaxDup == 2
\* The gboolean values passed to gtk_places_view_set_local_only are
\* 0..MaxGboolean.
MaxGboolean == 2

\* The GtkCloudProvider instances the process creates.  Instances share no
\* state: each has its own private data, proxy and calls.
Instances == {"p1"}

(***************************************************************************)
(* Program constants.                                                      *)
(***************************************************************************)
\* typedef enum GtkCloudProviderStatus (gtkcloudprovider.h)
GTK_CLOUD_PROVIDER_STATUS_INVALID == 0
GTK_CLOUD_PROVIDER_STATUS_IDLE == 1
GTK_CLOUD_PROVIDER_STATUS_SYNCING == 2
GTK_CLOUD_PROVIDER_STATUS_ERROR == 3

\* The anonymous enum of the example daemon (testcloudproviderserver.c)
IDLE == 0
SYNCING == 1
ERROR == 2

NULL == "NULL"
GDBusProxy == "GDBusProxy"

\* The names daemons reply with; "MyCloud" is the example daemon's.
Names == {"MyCloud", "Other"}
\* The int32 values a daemon's GetStatus reply carries.
ReplyInts == 0..MaxReplyInt

\* The service the example daemon owns (g_bus_own_name, register_object),
\* and some other provider daemon.
ExampleDescriptor ==
  [bus_name |-> "org.gtk.CloudProviderServerExample",
   object_path |-> "/org/gtk/CloudProviderServerExample"]
OtherDescriptor ==
  [bus_name |-> "org.example.Cloud", object_path |-> "/org/example/Cloud"]
Descriptors == {ExampleDescriptor, OtherDescriptor}

VARIABLES
  life,        \* per instance: "unborn", "live" or "finalized"
  priv,        \* per instance: its GtkCloudProviderPrivate
  connecting,  \* per instance: g_dbus_proxy_new_for_bus is in flight
  calls,       \* per instance: the g_dbus_proxy_call operations in flight
  n_changed,   \* per instance: emissions of its "changed" signal
  hist,        \* per instance: what the bus has carried for it (history)
  srv,         \* the example daemon's CloudProvider object and its timer
  crashed      \* the process has been killed by an invalid memory access

vars == <<life, priv, connecting, calls, n_changed, hist, srv, crashed>>

(***************************************************************************)
(* GtkCloudProviderPrivate, zero-filled by g_object_new.                   *)
(***************************************************************************)
GtkCloudProviderPrivate ==
  [name |-> NULL, status |-> 0, icon |-> NULL, menu |-> NULL,
   proxy |-> NULL, bus_name |-> NULL, object_path |-> NULL]

\* The history of an instance while it lives (dropped with it).  n_update:
\* calls of gtk_cloud_provider_update by users; n_refresh: updates that
\* found a proxy; n_issued: g_dbus_proxy_call calls; n_done: call
\* completions delivered; last_name / last_status: the most recently
\* completed call of each method, its outcome ("none" before the first,
\* "error" or "ok") and the refresh that issued it; ok_name / ok_status: the
\* value of the most recently completed successful reply (NULL / -1 before
\* the first).
NoHistory ==
  [n_update |-> 0, n_refresh |-> 0, n_issued |-> 0, n_done |-> 0,
   last_name |-> [tag |-> "none", seq |-> 0],
   last_status |-> [tag |-> "none", seq |-> 0],
   ok_name |-> NULL, ok_status |-> -1]

(***************************************************************************)
(* The example daemon (testcloudproviderserver.c).                         *)
(***************************************************************************)
\* cloud_provider_init, and main before the main loop runs: the manager
\* proxy is being created, no timer is installed yet.
cloud_provider_init ==
  [name |-> "MyCloud", status |-> SYNCING, manager_proxy |-> "pending",
   timeout_handler |-> FALSE, ticks |-> 0, changed_calls |-> 0]

\* handle_method_call: the reply to a method call, from the daemon's state.
handle_method_call(s, method_name) ==
  IF method_name = "GetName"
    THEN [tag |-> "ok", sval |-> s.name, ival |-> 0]
    ELSE [tag |-> "ok", sval |-> NULL, ival |-> s.status]

\* on_manager_proxy_created: stores the proxy (NULL on error) and installs
\* the timer in both cases.
on_manager_proxy_created(ok) ==
  /\ ~crashed
  /\ srv.manager_proxy = "pending"
  /\ srv' = [srv EXCEPT !.manager_proxy = IF ok THEN GDBusProxy ELSE NULL,
                        !.timeout_handler = TRUE]
  /\ UNCHANGED <<life, priv, connecting, calls, n_changed, hist, crashed>>

\* cloud_provider_set_status: stores the status and calls
\* CloudProviderChanged on the manager proxy; g_dbus_proxy_call on a NULL
\* proxy fails its precondition check and sends nothing.
cloud_provider_set_status(s, status) ==
  [s EXCEPT !.status = status,
            !.changed_calls = IF s.manager_proxy = GDBusProxy
                                THEN @ + 1 ELSE @]

\* change_provider: the timer callback; g_rand_int_range (IDLE, ERROR + 1).
change_provider(new_status) ==
  /\ ~crashed
  /\ srv.timeout_handler
  /\ srv.ticks < MaxTicks
  /\ srv' = [cloud_provider_set_status(srv, new_status)
               EXCEPT !.ticks = @ + 1]
  /\ UNCHANGED <<life, priv, connecting, calls, n_changed, hist, crashed>>

(***************************************************************************)
(* The bus.                                                                *)
(***************************************************************************)
TransportError == [tag |-> "error", sval |-> NULL, ival |-> 0]

\* What g_dbus_proxy_call_finish can yield for a call of instance i: an
\* error (no owner, timeout, a reply of the wrong type), the example
\* daemon's reply if the proxy addresses it, and any well-typed reply if it
\* addresses another daemon.
Replies(i, method_name) ==
  {TransportError} \cup
  IF priv[i].bus_name = ExampleDescriptor.bus_name
    THEN {handle_method_call(srv, method_name)}
    ELSE IF method_name = "GetName"
      THEN {[tag |-> "ok", sval |-> n, ival |-> 0] : n \in Names}
      ELSE {[tag |-> "ok", sval |-> NULL, ival |-> v] : v \in ReplyInts}

(***************************************************************************)
(* The proxy (gtkcloudprovider.c).                                         *)
(***************************************************************************)
\* As gtk_cloud_provider_update_calls, without the test of priv->proxy.
gtk_cloud_provider_update_calls_unchecked(proxy, pending, seq) ==
  pending \cup {[method |-> "GetName", seq |-> seq],
                [method |-> "GetStatus", seq |-> seq]}

\* As gtk_cloud_provider_update_calls, the second g_dbus_proxy_call missing.
gtk_cloud_provider_update_calls_name_only(proxy, pending, seq) ==
  IF proxy # NULL
    THEN pending \cup {[method |-> "GetName", seq |-> seq]}
    ELSE pending

\* gtk_cloud_provider_update: the calls in flight after it, `pending` being
\* those before; seq numbers the refresh.
gtk_cloud_provider_update_calls(proxy, pending, seq) ==
  IF proxy # NULL
    THEN pending \cup {[method |-> "GetName", seq |-> seq],
                       [method |-> "GetStatus", seq |-> seq]}
    ELSE pending

\* The history after gtk_cloud_provider_update.
HistoryAfterUpdate(h, proxy) ==
  IF proxy # NULL
    THEN [h EXCEPT !.n_refresh = @ + 1, !.n_issued = @ + 2]
    ELSE h

\* As gtk_cloud_provider_new, the proxy construction not started.
gtk_cloud_provider_new_lazy(i, d) ==
  /\ ~crashed
  /\ life[i] = "unborn"
  /\ life' = [life EXCEPT ![i] = "live"]
  /\ priv' = [priv EXCEPT ![i] =
                [GtkCloudProviderPrivate EXCEPT !.bus_name = d.bus_name,
                                                !.object_path = d.object_path]]
  /\ UNCHANGED <<connecting, calls, n_changed, hist, srv, crashed>>

\* gtk_cloud_provider_new: a zero-filled instance with the descriptor
\* copied in, and the proxy construction started.
gtk_cloud_provider_new(i, d) ==
  /\ ~crashed
  /\ life[i] = "unborn"
  /\ life' = [life EXCEPT ![i] = "live"]
  /\ priv' = [priv EXCEPT ![i] =
                [GtkCloudProviderPrivate EXCEPT !.bus_name = d.bus_name,
                                                !.object_path = d.object_path]]
  /\ connecting' = [connecting EXCEPT ![i] = TRUE]
  /\ UNCHANGED <<calls, n_changed, hist, srv, crashed>>

\* As gtk_cloud_provider_update, starting the proxy construction again
\* when there is no proxy and none is being constructed.
gtk_cloud_provider_update_reconnects(i) ==
  /\ ~crashed
  /\ life[i] = "live"
  /\ hist[i].n_update < MaxUpdates
  /\ calls' = [calls EXCEPT ![i] =
                 gtk_cloud_provider_update_calls(priv[i].proxy, @,
                                                 hist[i].n_refresh + 1)]
  /\ hist' = [hist EXCEPT ![i] =
                [HistoryAfterUpdate(@, priv[i].proxy)
                   EXCEPT !.n_update = @ + 1]]
  /\ connecting' = [connecting EXCEPT ![i] = @ \/ priv[i].proxy = NULL]
  /\ UNCHANGED <<life, priv, n_changed, srv, crashed>>

\* gtk_cloud_provider_update called by a user of a live instance.
gtk_cloud_provider_update(i) ==
  /\ ~crashed
  /\ life[i] = "live"
  /\ hist[i].n_update < MaxUpdates
  /\ calls' = [calls EXCEPT ![i] =
                 gtk_cloud_provider_update_calls(priv[i].proxy, @,
                                                 hist[i].n_refresh + 1)]
  /\ hist' = [hist EXCEPT ![i] =
                [HistoryAfterUpdate(@, priv[i].proxy)
                   EXCEPT !.n_update = @ + 1]]
  /\ UNCHANGED <<life, priv, connecting, n_changed, srv, crashed>>

\* The history after the completion of call c with reply r has been
\* delivered.
HistoryAfterReply(h, c, r) ==
  [h EXCEPT
     !.n_done = @ + 1,
     !.last_name = IF c.method = "GetName"
                     THEN [tag |-> r.tag, seq |-> c.seq]
                     ELSE @,
     !.last_status = IF c.method = "GetStatus"
                       THEN [tag |-> r.tag, seq |-> c.seq]
                       ELSE @,
     !.ok_name = IF c.method = "GetName" /\ r.tag = "ok" THEN r.sval ELSE @,
     !.ok_status = IF c.method = "GetStatus" /\ r.tag = "ok"
                     THEN r.ival ELSE @]

\* As on_get_name_priv, the replied string stored as the bus name too.
on_get_name_priv_renames_bus(p, r) ==
  IF r.tag = "error" THEN p ELSE [p EXCEPT !.name = r.sval, !.bus_name = r.sval]

\* As on_get_name_priv, a successful reply also resetting the status.
on_get_name_priv_resets_status(p, r) ==
  IF r.tag = "error" THEN p ELSE [p EXCEPT !.name = r.sval, !.status = 0]

\* As on_get_name_priv, the error path storing the string of the absent
\* reply (NULL).
on_get_name_priv_clears(p, r) ==
  [p EXCEPT !.name = IF r.tag = "error" THEN NULL ELSE r.sval]

\* As on_get_name_priv, storing a name only while none is cached.
on_get_name_priv_first(p, r) ==
  IF r.tag = "error" \/ p.name # NULL THEN p ELSE [p EXCEPT !.name = r.sval]

\* on_get_name: the private data after it; an error skips the store.
on_get_name_priv(p, r) ==
  IF r.tag = "error" THEN p ELSE [p EXCEPT !.name = r.sval]

\* As on_get_name_emit, the error path returning instead of going to out.
on_get_name_emit_ok_only(r) == IF r.tag = "error" THEN 0 ELSE 1

\* on_get_name: emissions of "changed"; the store and the error path both
\* end at the label out, which emits once.
on_get_name_emit(r) == 1

\* As on_get_status_priv, an icon named after the replied status stored too.
on_get_status_priv_sets_icon(p, r) ==
  IF r.tag = "error" THEN p
                     ELSE [p EXCEPT !.status = r.ival, !.icon = "GThemedIcon"]

\* As on_get_status_priv, a successful reply also dropping the name.
on_get_status_priv_forgets_name(p, r) ==
  IF r.tag = "error" THEN p ELSE [p EXCEPT !.status = r.ival, !.name = NULL]

\* As on_get_status_priv, the error path storing the int32 of the absent
\* reply (0).
on_get_status_priv_resets(p, r) ==
  [p EXCEPT !.status = IF r.tag = "error" THEN 0 ELSE r.ival]

\* on_get_status: the private data after it; the int32 of the reply is
\* stored in the enum-typed field as it is.
on_get_status_priv(p, r) ==
  IF r.tag = "error" THEN p ELSE [p EXCEPT !.status = r.ival]

\* As on_get_status_emit, the error path returning instead of going to out.
on_get_status_emit_ok_only(r) == IF r.tag = "error" THEN 0 ELSE 1

\* on_get_status: emissions of "changed".
on_get_status_emit(r) == 1

\* As on_proxy_created_emit, emitting once the proxy is there.
on_proxy_created_emit_connected(ok) == IF ok THEN 1 ELSE 0

\* on_proxy_created: emissions of "changed" (none).
on_proxy_created_emit(ok) == 0

\* As on_proxy_created_calls, a refresh dropped during the construction
\* being made up for by a second one.
on_proxy_created_calls_replays(ok, proxy, pending, seq) ==
  IF ok
    THEN gtk_cloud_provider_update_calls(
           proxy, gtk_cloud_provider_update_calls(proxy, pending, seq), seq + 1)
    ELSE pending

\* As on_proxy_created_calls, without the call of gtk_cloud_provider_update.
on_proxy_created_calls_no_update(ok, proxy, pending, seq) == pending

\* on_proxy_created: the refresh it makes, as the calls in flight after it:
\* gtk_cloud_provider_update unless the construction failed.
on_proxy_created_calls(ok, proxy, pending, seq) ==
  IF ok THEN gtk_cloud_provider_update_calls(proxy, pending, seq)
        ELSE pending

\* on_proxy_created: g_dbus_proxy_new_for_bus_finish yields the proxy, or
\* NULL with the error set.  The instance may have been finalized meanwhile:
\* nothing cancels the construction and it holds no reference on the
\* instance, so the callback then reads and writes freed memory.
on_proxy_created(i, ok) ==
  /\ ~crashed
  /\ connecting[i]
  /\ connecting' = [connecting EXCEPT ![i] = FALSE]
  /\ LET proxy == IF ok THEN GDBusProxy ELSE NULL
         stored == /\ priv' = [priv EXCEPT ![i].proxy = proxy]
                   /\ calls' = [calls EXCEPT ![i] =
                        on_proxy_created_calls(ok, proxy, @,
                                               hist[i].n_refresh + 1)]
                   /\ n_changed' = [n_changed EXCEPT ![i] =
                                      @ + on_proxy_created_emit(ok)]
     IN \/ /\ life[i] = "live"
           /\ stored
           /\ hist' = [hist EXCEPT ![i] =
                        IF calls'[i] # calls[i]
                          THEN HistoryAfterUpdate(@, proxy) ELSE @]
           /\ UNCHANGED <<life, srv, crashed>>
        \/ /\ life[i] = "finalized"
           /\ \/ stored /\ UNCHANGED <<life, hist, srv, crashed>>
              \/ /\ crashed' = TRUE
                 /\ UNCHANGED <<life, priv, calls, n_changed, hist, srv>>

\* on_get_name, completing call c of instance i with reply r.  On a
\* finalized instance the handler works on freed memory: the process may
\* die, or the store is made in the freed private data and the emission
\* goes through the freed instance, reaching handlers or not.
on_get_name(i, c, r) ==
  /\ ~crashed
  /\ c \in calls[i]
  /\ c.method = "GetName"
  /\ r \in Replies(i, "GetName")
  /\ calls' = [calls EXCEPT ![i] = @ \ {c}]
  /\ \/ /\ life[i] = "live"
        /\ hist' = [hist EXCEPT ![i] = HistoryAfterReply(@, c, r)]
        /\ priv' = [priv EXCEPT ![i] = on_get_name_priv(@, r)]
        /\ n_changed' = [n_changed EXCEPT ![i] = @ + on_get_name_emit(r)]
        /\ UNCHANGED <<life, connecting, srv, crashed>>
     \/ /\ life[i] = "finalized"
        /\ \/ /\ priv' = [priv EXCEPT ![i] = on_get_name_priv(@, r)]
              /\ \E e \in {0, 1} : n_changed' = [n_changed EXCEPT ![i] = @ + e]
              /\ UNCHANGED <<life, connecting, hist, srv, crashed>>
           \/ /\ crashed' = TRUE
              /\ UNCHANGED <<life, priv, connecting, n_changed, hist, srv>>

\* on_get_status, completing call c of instance i with reply r.
on_get_status(i, c, r) ==
  /\ ~crashed
  /\ c \in calls[i]
  /\ c.method = "GetStatus"
  /\ r \in Replies(i, "GetStatus")
  /\ calls' = [calls EXCEPT ![i] = @ \ {c}]
  /\ \/ /\ life[i] = "live"
        /\ hist' = [hist EXCEPT ![i] = HistoryAfterReply(@, c, r)]
        /\ priv' = [priv EXCEPT ![i] = on_get_status_priv(@, r)]
        /\ n_changed' = [n_changed EXCEPT ![i] = @ + on_get_status_emit(r)]
        /\ UNCHANGED <<life, connecting, srv, crashed>>
     \/ /\ life[i] = "finalized"
        /\ \/ /\ priv' = [priv EXCEPT ![i] = on_get_status_priv(@, r)]
              /\ \E e \in {0, 1} : n_changed' = [n_changed EXCEPT ![i] = @ + e]
              /\ UNCHANGED <<life, connecting, hist, srv, crashed>>
           \/ /\ crashed' = TRUE
              /\ UNCHANGED <<life, priv, connecting, n_changed, hist, srv>>

\* gtk_cloud_provider_finalize, run when the last reference is dropped:
\* frees the strings and clears the objects.  It cancels neither the proxy
\* construction nor the calls in flight, whose callbacks keep the pointer
\* to the instance.
gtk_cloud_provider_finalize(i) ==
  /\ ~crashed
  /\ life[i] = "live"
  /\ life' = [life EXCEPT ![i] = "finalized"]
  /\ priv' = [priv EXCEPT ![i].icon = NULL, ![i].menu = NULL,
                          ![i].proxy = NULL]
  /\ hist' = [hist EXCEPT ![i] = NoHistory]
  /\ UNCHANGED <<connecting, calls, n_changed, srv, crashed>>

(***************************************************************************)
(* The accessors (gtkcloudprovider.c).                                     *)
(***************************************************************************)
VARIABLES
  ret          \* the most recent accessor call and what it returned

\* No accessor has been called yet.
NoCall == [fn |-> "none", self |-> NULL, sval |-> NULL, ival |-> 0]

\* gtk_cloud_provider_get_name: returns priv->name.
gtk_cloud_provider_get_name(i) ==
  /\ ~crashed
  /\ life[i] = "live"
  /\ ret' = [fn |-> "get_name", self |-> i, sval |-> priv[i].name, ival |-> 0]
  /\ UNCHANGED vars

\* As gtk_cloud_provider_get_status, refreshing before it returns.
gtk_cloud_provider_get_status_refreshes(i) ==
  /\ ~crashed
  /\ life[i] = "live"
  /\ ret' = [fn |-> "get_status", self |-> i, sval |-> NULL,
             ival |-> priv[i].status]
  /\ calls' = [calls EXCEPT ![i] =
                 gtk_cloud_provider_update_calls(priv[i].proxy, @,
                                                 hist[i].n_refresh + 1)]
  /\ hist' = [hist EXCEPT ![i] = HistoryAfterUpdate(@, priv[i].proxy)]
  /\ UNCHANGED <<life, priv, connecting, n_changed, srv, crashed>>

\* gtk_cloud_provider_get_status: returns priv->status.
gtk_cloud_provider_get_status(i) ==
  /\ ~crashed
  /\ life[i] = "live"
  /\ ret' = [fn |-> "get_status", self |-> i, sval |-> NULL,
             ival |-> priv[i].status]
  /\ UNCHANGED vars

\* gtk_cloud_provider_get_icon: returns priv->icon.
gtk_cloud_provider_get_icon(i) ==
  /\ ~crashed
  /\ life[i] = "live"
  /\ ret' = [fn |-> "get_icon", self |-> i, sval |-> priv[i].icon, ival |-> 0]
  /\ UNCHANGED vars

\* gtk_cloud_provider_get_menu: returns priv->menu.
gtk_cloud_provider_get_menu(i) ==
  /\ ~crashed
  /\ life[i] = "live"
  /\ ret' = [fn |-> "get_menu", self |-> i, sval |-> priv[i].menu, ival |-> 0]
  /\ UNCHANGED vars

(***************************************************************************)
(* The registry (GtkCloudProviderManager, declared in                      *)
(* gtkcloudprovidermanager.h), the directory of descriptor files it scans  *)
(* and the proxies it owns.                                                *)
(***************************************************************************)
VARIABLES
  mgr,         \* the singleton slot, the registry it holds and its history
  files        \* the discovery source as the most recent update read it:
               \* per descriptor file, what it held

registry_vars == <<mgr, files>>

\* The GtkCloudProvider instances a registry can create.
Providers == {"p1", "p2"}

\* The descriptor files of the discovery source.
Files == {"a.ini", "b.ini"}

\* What a descriptor file can hold: nothing (no such file), a key file
\* lacking the object path (or, to the same effect, bytes that cannot be
\* read as a key file), a key file naming a descriptor.
Absent == [kind |-> "absent", bus_name |-> NULL, object_path |-> NULL]
Malformed ==
  [kind |-> "keyfile", bus_name |-> OtherDescriptor.bus_name,
   object_path |-> NULL]
KeyFile(d) ==
  [kind |-> "keyfile", bus_name |-> d.bus_name, object_path |-> d.object_path]
FileContents == {Absent, Malformed} \cup {KeyFile(d) : d \in Descriptors}

\* The singleton slot before the first gtk_cloud_provider_manager_dup_singleton.
\* self: the registry in the slot (0: none, k: the k-th created); n_created:
\* registries created so far; n_dup and returned: the calls of dup_singleton
\* and what they returned; providers: the proxies held, in order; emitted:
\* emissions of the registry's "changed" by the most recent step; scanned:
\* an update has run.
NoManager ==
  [self |-> 0, n_created |-> 0, n_dup |-> 0, returned |-> {},
   providers |-> <<>>, emitted |-> 0, scanned |-> FALSE]

Range(seq) == {seq[k] : k \in 1..Len(seq)}

\* A set as a sequence, in an order fixed for the set.
SetToSeq(S) ==
  CHOOSE seq \in [1..Cardinality(S) -> S] : Range(seq) = S

\* The descriptor a proxy was created for.
DescriptorOf(p) == [bus_name |-> p.bus_name, object_path |-> p.object_path]

\* As singleton_exists, never finding the registry made before.
singleton_exists_never(m) == FALSE

\* The singleton slot holds a registry.
singleton_exists(m) == m.self # 0

\* gtk_cloud_provider_manager_dup_singleton: the registry in the slot,
\* created if there is none.
gtk_cloud_provider_manager_dup_singleton ==
  /\ ~crashed
  /\ mgr.n_dup < MaxDup
  /\ mgr' = IF singleton_exists(mgr)
              THEN [mgr EXCEPT !.n_dup = @ + 1,
                               !.returned = @ \cup {mgr.self},
                               !.emitted = 0]
              ELSE [NoManager EXCEPT !.self = mgr.n_created + 1,
                                     !.n_created = mgr.n_created + 1,
                                     !.n_dup = mgr.n_dup + 1,
                                     !.returned = mgr.returned
                                                    \cup {mgr.n_created + 1}]
  /\ UNCHANGED <<vars, files, ret>>

\* As ReadDescriptors, giving up at the first file that cannot be used.
ReadDescriptors_aborts(fs) ==
  IF \E f \in Files : fs[f].kind = "keyfile" /\ fs[f].object_path = NULL
    THEN {}
    ELSE {DescriptorOf(fs[f]) : f \in {g \in Files : fs[g].kind = "keyfile"}}

\* The descriptors the discovery source advertises: one per file that can
\* be read and names a bus name and an object path.
ReadDescriptors(fs) ==
  {DescriptorOf(fs[f]) :
     f \in {g \in Files : /\ fs[g].kind = "keyfile"
                          /\ fs[g].bus_name # NULL
                          /\ fs[g].object_path # NULL}}

\* As VanishedProviders, keeping every proxy.
VanishedProviders_none(held, present) == {}

\* As VanishedProviders, dropping every proxy, to build the list afresh.
VanishedProviders_all(held, present) == held

\* The proxies held whose descriptor is no longer advertised.
VanishedProviders(held, present) ==
  {i \in held : DescriptorOf(priv[i]) \notin present}

\* The descriptors advertised that none of the proxies kept is for.
MissingDescriptors(kept, present) ==
  present \ {DescriptorOf(priv[i]) : i \in kept}

\* As update_emit, silent about removals.
update_emit_added_only(vanished, created) ==
  IF created # {} THEN 1 ELSE 0

\* The emissions of the registry's "changed" by an update: one if it added
\* or removed a proxy.
update_emit(vanished, created) ==
  IF vanished \cup created # {} THEN 1 ELSE 0

\* The private data gtk_cloud_provider_new leaves in a new instance.
PrivateAfterNew(d) ==
  [GtkCloudProviderPrivate EXCEPT !.bus_name = d.bus_name,
                                  !.object_path = d.object_path]

\* The private data gtk_cloud_provider_finalize leaves behind.
PrivateAfterFinalize(p) ==
  [p EXCEPT !.icon = NULL, !.menu = NULL, !.proxy = NULL]

\* gtk_cloud_provider_manager_update, the discovery source holding `source`
\* (files are created, rewritten and deleted between updates): reads it, drops
\* (and so finalizes: the registry holds the only reference) the proxies
\* whose descriptor vanished, creates a proxy for each descriptor that has
\* none, leaves the others alone, and emits "changed" if the list changed.
gtk_cloud_provider_manager_update(source) ==
  /\ ~crashed
  /\ singleton_exists(mgr)
  /\ files' = source
  /\ LET present == ReadDescriptors(source)
         held == Range(mgr.providers)
         vanished == VanishedProviders(held, present)
         missing == SetToSeq(MissingDescriptors(held \ vanished, present))
         unborn == SetToSeq({i \in Providers : life[i] = "unborn"})
         created == {unborn[k] : k \in 1..Len(missing)}
         DescriptorFor(i) == missing[CHOOSE k \in 1..Len(missing) : unborn[k] = i]
     IN /\ Len(missing) <= Len(unborn)
        /\ life' = [i \in Providers |->
                      IF i \in vanished THEN "finalized"
                      ELSE IF i \in created THEN "live" ELSE life[i]]
        /\ priv' = [i \in Providers |->
                      IF i \in vanished THEN PrivateAfterFinalize(priv[i])
                      ELSE IF i \in created
                        THEN PrivateAfterNew(DescriptorFor(i)) ELSE priv[i]]
        /\ connecting' = [i \in Providers |-> i \in created \/ connecting[i]]
        /\ hist' = [i \in Providers |->
                      IF i \in vanished THEN NoHistory ELSE hist[i]]
        /\ mgr' = [mgr EXCEPT
                     !.providers =
                        SelectSeq(@, LAMBDA i : i \notin vanished)
                          \o [k \in 1..Len(missing) |-> unborn[k]],
                     !.emitted = update_emit(vanished, created),
                     !.scanned = TRUE]
        /\ UNCHANGED <<calls, n_changed, srv, crashed, ret>>

\* The registry's handler of the "changed" signal of the proxies it made,
\* run for each emission of proxy i that reaches the handlers: it emits the
\* registry's "changed".
on_cloud_provider_changed(i) ==
  mgr' = [mgr EXCEPT !.emitted = n_changed'[i] - n_changed[i]]

(***************************************************************************)
(* The places view (gtkplacesview.c).                                      *)
(***************************************************************************)
VARIABLES
  pv,          \* GtkPlacesViewPrivate: open_flags, connection_cancellable
               \* and the popup menu
  monitor,     \* the volume monitor: per volume, "absent", "unmounted" or
               \* "mounted"
  mounts,      \* the volume monitor: the mounts without volume
  mounting,    \* the mount operations in flight
  servers,     \* the stored server list
  opened,      \* the 'open-location' emission of the most recent step
  notified,    \* the properties the most recent step notified
  got          \* what the getter called in the most recent step returned

places_vars ==
  <<pv, monitor, mounts, mounting, servers, opened, notified, got>>

\* GtkPlacesOpenFlags, a value being the set of the flags it has set.
GTK_PLACES_OPEN_NORMAL == "GTK_PLACES_OPEN_NORMAL"
GTK_PLACES_OPEN_NEW_TAB == "GTK_PLACES_OPEN_NEW_TAB"
GTK_PLACES_OPEN_NEW_WINDOW == "GTK_PLACES_OPEN_NEW_WINDOW"
GtkPlacesOpenFlags ==
  SUBSET {GTK_PLACES_OPEN_NORMAL, GTK_PLACES_OPEN_NEW_TAB,
          GTK_PLACES_OPEN_NEW_WINDOW}

\* The volumes the monitor reports, each shown as a row, and the addresses
\* typed in the address entry.
Volumes == {"volume1"}
Addresses == {"sftp://host"}

\* What the address entry can hold: nothing, the addresses, an address of
\* a scheme of unsupported_protocols and one of a scheme the VFS lacks.
AddressTexts == {""} \cup Addresses \cup {"file:///tmp", "gopher://host"}

\* g_uri_parse_scheme on the texts of the address entry.
g_uri_parse_scheme(address) ==
  CASE address = "sftp://host" -> "sftp"
    [] address = "file:///tmp" -> "file"
    [] address = "gopher://host" -> "gopher"
    [] address = "smb://share" -> "smb"
    [] OTHER -> NULL

unsupported_protocols ==
  {"file", "afc", "obex", "http", "trash", "burn", "computer", "archive",
   "recent", "localtest"}

\* What g_vfs_get_supported_uri_schemes can return: NULL, or the array of
\* the schemes of the default VFS.
SupportedUriSchemes ==
  {[null |-> TRUE, schemes |-> {}],
   [null |-> FALSE, schemes |-> {"file", "sftp", "smb"}]}

\* How a mount operation can end: success, G_IO_ERROR_ALREADY_MOUNTED,
\* G_IO_ERROR_CANCELLED, G_IO_ERROR_FAILED_HANDLED, any other error.
MountOutcomes ==
  {"ok", "ALREADY_MOUNTED", "CANCELLED", "FAILED_HANDLED", "FAILED"}

NoOperation == [kind |-> "none", target |-> NULL]
NoMenu == [row |-> NULL, items |-> {}, shown |-> FALSE]
NoEmission == [by |-> "none", flags |-> {}]
NoReturn == [fn |-> "none", flags |-> {}, bool |-> FALSE]

\* The width in bits of the field local_only of GtkPlacesViewPrivate.
LocalOnlyBits == 1

\* The gboolean values (gint) a caller passes.
Gbooleans == 0..MaxGboolean

\* gtk_places_view_init: the private data is zero-filled, open_flags is
\* set, and gtk_widget_init_template builds the action bar and the network
\* grid, taken to be shown as the template declares them.
gtk_places_view_init ==
  [open_flags |-> {GTK_PLACES_OPEN_NORMAL},
   connection_cancellable |-> NoOperation,
   popup_menu |-> NoMenu,
   local_only |-> 0,
   actionbar |-> [visible |-> TRUE],
   network_grid |-> [visible |-> TRUE],
   address_entry |-> [text |-> ""],
   connect_button |-> [sensitive |-> FALSE],
   drives_listbox |-> <<>>,
   network_listbox |-> <<>>,
   recent_servers_listbox |-> <<>>]

\* The drives, volumes and mounts the volume monitor can report, with what
\* GIO answers about each.  A mount is named by its root.
GDrives == {"disk", "usb", "cardreader"}
GVolumes == Volumes \cup {"backup", "usbstick", "sdcard", "share"}
GMounts == {"/mnt/data", "/mnt/shadowed", "/media/cdrom"}

g_drive_can_eject(drive) == drive = "usb"
g_drive_is_media_removable(drive) == drive \in {"usb", "cardreader"}

g_volume_get_drive(volume) ==
  CASE volume \in {"volume1", "backup"} -> "disk"
    [] volume = "usbstick" -> "usb"
    [] volume = "sdcard" -> "cardreader"
    [] OTHER -> NULL

g_volume_can_eject(volume) == volume = "usbstick"

\* g_volume_get_identifier (volume, G_VOLUME_IDENTIFIER_KIND_CLASS).
g_volume_get_identifier(volume) ==
  IF volume = "share" THEN "network" ELSE "device"

\* The mount of a volume that is mounted.
MountOfVolume(volume) ==
  CASE volume = "volume1" -> "/"
    [] volume = "backup" -> "/backup"
    [] volume = "usbstick" -> "/media/usb"
    [] volume = "sdcard" -> "/media/sd"
    [] volume = "share" -> "smb://share"

\* g_volume_get_mount, `volumes` giving the state of each volume.
g_volume_get_mount(volumes, volume) ==
  IF volumes[volume] = "mounted" THEN MountOfVolume(volume) ELSE NULL

\* g_mount_get_volume.
g_mount_get_volume(mount) ==
  IF \E volume \in GVolumes : MountOfVolume(volume) = mount
    THEN CHOOSE volume \in GVolumes : MountOfVolume(volume) = mount
    ELSE NULL

\* g_mount_get_drive: the drive of the mount's volume; of the mounts
\* without volume, one is on a drive.
g_mount_get_drive(mount) ==
  IF g_mount_get_volume(mount) # NULL
    THEN g_volume_get_drive(g_mount_get_volume(mount))
    ELSE IF mount = "/media/cdrom" THEN "cardreader" ELSE NULL

g_mount_can_eject(mount) == mount \in {"/backup", "/media/usb"}
g_mount_can_unmount(mount) == mount # "/backup"
g_mount_is_shadowed(mount) == mount = "/mnt/shadowed"

\* g_file_is_native on the root of a mount: a path or a file: URI.
g_file_is_native(root) == g_uri_parse_scheme(root) \in {NULL, "file"}

\* The GList GIO returns for a set of objects, in an order fixed for the
\* set.
RECURSIVE GList(_)
GList(S) ==
  IF S = {}
    THEN <<>>
    ELSE LET first == CHOOSE x \in S : TRUE
         IN <<first>> \o GList(S \ {first})

\* The lists of a view without rows.
NoRows ==
  [drives_listbox |-> <<>>, network_listbox |-> <<>>,
   recent_servers_listbox |-> <<>>]

\* is_external_device.
is_external_device(volumes, volume) ==
  LET drive == g_volume_get_drive(volume)
      mount == g_volume_get_mount(volumes, volume)
  IN IF drive # NULL
       THEN \/ g_drive_can_eject(drive)
            \/ g_volume_can_eject(volume)
            \/ (mount # NULL /\ g_mount_can_eject(mount)
                             /\ ~g_mount_can_unmount(mount))
       ELSE FALSE

\* gtk_container_add of a row to the network or the drives listbox.
AddRow(lists, is_network, row) ==
  IF is_network
    THEN [lists EXCEPT !.network_listbox = Append(@, row)]
    ELSE [lists EXCEPT !.drives_listbox = Append(@, row)]

\* As add_volume, without the test of the drive's media.
add_volume_shows_removable(lists, volumes, volume) ==
  LET mount == g_volume_get_mount(volumes, volume)
      is_network == g_volume_get_identifier(volume) = "network"
  IN IF is_external_device(volumes, volume)
       THEN lists
       ELSE IF mount = NULL \/ ~g_mount_is_shadowed(mount)
         THEN AddRow(lists, is_network, [volume |-> volume, mount |-> mount])
         ELSE lists

\* add_volume: the lists after it.
add_volume(lists, volumes, volume) ==
  LET drive == g_volume_get_drive(volume)
      mount == g_volume_get_mount(volumes, volume)
      is_network == g_volume_get_identifier(volume) = "network"
  IN IF is_external_device(volumes, volume)
       THEN lists
       ELSE IF drive # NULL /\ g_drive_is_media_removable(drive)
         THEN lists
         ELSE IF mount = NULL \/ ~g_mount_is_shadowed(mount)
           THEN AddRow(lists, is_network,
                       [volume |-> volume, mount |-> mount])
           ELSE lists

\* add_mount: the lists after it; is_network is g_file_is_native of the
\* root.
add_mount(lists, mount) ==
  LET drive == g_mount_get_drive(mount)
      is_network == g_file_is_native(mount)
  IN IF drive # NULL /\ g_drive_is_media_removable(drive)
       THEN lists
       ELSE IF g_mount_get_volume(mount) # NULL
         THEN lists
         ELSE IF ~g_mount_is_shadowed(mount)
           THEN AddRow(lists, is_network, [volume |-> NULL, mount |-> mount])
           ELSE lists

\* The loop over the volumes of a list, calling add_volume on each.
RECURSIVE AddVolumes(_, _, _)
AddVolumes(lists, volumes, list) ==
  IF list = <<>>
    THEN lists
    ELSE AddVolumes(add_volume(lists, volumes, Head(list)), volumes,
                    Tail(list))

\* add_drive: the lists after it.
add_drive(lists, volumes, drive) ==
  IF g_drive_can_eject(drive)
    THEN lists
    ELSE AddVolumes(lists, volumes,
           GList({volume \in DOMAIN volumes :
                       /\ volumes[volume] # "absent"
                       /\ g_volume_get_drive(volume) = drive}))

\* The loop of update_places over the connected drives.
RECURSIVE AddDrives(_, _, _)
AddDrives(lists, volumes, list) ==
  IF list = <<>>
    THEN lists
    ELSE AddDrives(add_drive(lists, volumes, Head(list)), volumes, Tail(list))

\* The loop of update_places over the mounts, skipping those with a volume.
RECURSIVE AddMounts(_, _)
AddMounts(lists, list) ==
  IF list = <<>>
    THEN lists
    ELSE IF g_mount_get_volume(Head(list)) # NULL
      THEN AddMounts(lists, Tail(list))
      ELSE AddMounts(add_mount(lists, Head(list)), Tail(list))

\* g_volume_monitor_get_mounts: the mounts of the mounted volumes and the
\* mounts without volume.
g_volume_monitor_get_mounts(volumes, volumeless) ==
  {MountOfVolume(volume) :
     volume \in {v \in DOMAIN volumes : volumes[v] = "mounted"}}
    \cup volumeless

\* populate_servers: a row of the recent servers listbox for each stored
\* server.
populate_servers(lists, server_list) ==
  [lists EXCEPT !.recent_servers_listbox = GList(server_list)]

\* As update_places, the children of the drives and network listboxes not
\* destroyed first.
update_places_keeps_rows(view, volumes, volumeless, server_list) ==
  LET present == {volume \in DOMAIN volumes : volumes[volume] # "absent"}
      kept == [NoRows EXCEPT !.drives_listbox = view.drives_listbox,
                             !.network_listbox = view.network_listbox]
      with_drives == AddDrives(kept, volumes, GList(GDrives))
      with_volumes ==
        AddVolumes(with_drives, volumes,
                   GList({volume \in present :
                               g_volume_get_drive(volume) = NULL}))
      with_mounts ==
        AddMounts(with_volumes,
                  GList(g_volume_monitor_get_mounts(volumes, volumeless)))
      lists == populate_servers(with_mounts, server_list)
  IN [view EXCEPT !.drives_listbox = lists.drives_listbox,
                  !.network_listbox = lists.network_listbox,
                  !.recent_servers_listbox = lists.recent_servers_listbox]

\* update_places: the view after it, `volumes` and `volumeless` being what
\* the volume monitor reports and server_list the stored servers.
update_places(view, volumes, volumeless, server_list) ==
  LET present == {volume \in DOMAIN volumes : volumes[volume] # "absent"}
      with_drives == AddDrives(NoRows, volumes, GList(GDrives))
      with_volumes ==
        AddVolumes(with_drives, volumes,
                   GList({volume \in present :
                               g_volume_get_drive(volume) = NULL}))
      with_mounts ==
        AddMounts(with_volumes,
                  GList(g_volume_monitor_get_mounts(volumes, volumeless)))
      lists == populate_servers(with_mounts, server_list)
  IN [view EXCEPT !.drives_listbox = lists.drives_listbox,
                  !.network_listbox = lists.network_listbox,
                  !.recent_servers_listbox = lists.recent_servers_listbox]

\* What the volume monitor reports when the view is made: the volumes of
\* Volumes, none of them mounted.
VolumeMonitorInit ==
  [volume \in GVolumes |-> IF volume \in Volumes THEN "unmounted" ELSE "absent"]

\* gtk_places_view_constructed: the drives are loaded.
gtk_places_view_constructed ==
  update_places(gtk_places_view_init, VolumeMonitorInit, {}, {})

\* emit_open_location: the flags the signal is emitted with.
emit_open_location(view, open_flags) ==
  IF open_flags \cap view.open_flags = {}
    THEN {GTK_PLACES_OPEN_NORMAL}
    ELSE open_flags

\* gtk_places_view_set_open_flags: the property is notified if the value
\* differs from the stored one.
gtk_places_view_set_open_flags(flags) ==
  /\ pv' = [pv EXCEPT !.open_flags = flags]
  /\ opened' = NoEmission
  /\ notified' = IF pv.open_flags # flags THEN {"open-flags"} ELSE {}
  /\ got' = NoReturn
  /\ UNCHANGED <<monitor, mounts, mounting, servers>>

\* The types a GtkPlacesView instance is of, as far as its definition tells:
\* its own and the parent given to G_DEFINE_TYPE_WITH_PRIVATE.
GtkPlacesViewTypes == {"GtkPlacesView", "GtkBox"}

\* GTK_IS_PLACES_SIDEBAR on an instance of the types `types`.
GTK_IS_PLACES_SIDEBAR(types) == "GtkPlacesSidebar" \in types

\* gtk_places_view_get_open_flags on a GtkPlacesView: g_return_val_if_fail
\* tests GTK_IS_PLACES_SIDEBAR (view) and returns 0 when it fails; `checks`
\* tells whether the build keeps g_return_val_if_fail (it is compiled out
\* under G_DISABLE_CHECKS).
gtk_places_view_get_open_flags(checks) ==
  /\ got' = [fn |-> "gtk_places_view_get_open_flags",
             flags |-> IF checks /\ ~GTK_IS_PLACES_SIDEBAR(GtkPlacesViewTypes)
                         THEN {}
                         ELSE pv.open_flags,
             bool |-> FALSE]
  /\ opened' = NoEmission
  /\ notified' = {}
  /\ UNCHANGED <<pv, monitor, mounts, mounting, servers>>

\* gtk_places_view_real_get_local_only.
gtk_places_view_real_get_local_only(view) == view.local_only

\* gtk_places_view_get_local_only.
gtk_places_view_get_local_only ==
  /\ got' = [fn |-> "gtk_places_view_get_local_only",
             flags |-> {},
             bool |-> gtk_places_view_real_get_local_only(pv) # 0]
  /\ opened' = NoEmission
  /\ notified' = {}
  /\ UNCHANGED <<pv, monitor, mounts, mounting, servers>>

\* gtk_places_view_real_set_local_only: the view after it.  The gint is
\* compared with the bit-field, stored in it (keeping its low
\* LocalOnlyBits bits), and its negation shows or hides the two widgets.
gtk_places_view_real_set_local_only(view, local_only) ==
  IF view.local_only # local_only
    THEN [view EXCEPT !.local_only = local_only % (2 ^ LocalOnlyBits),
                      !.actionbar.visible = (local_only = 0),
                      !.network_grid.visible = (local_only = 0)]
    ELSE view

\* gtk_places_view_set_local_only, which dispatches to the class's
\* set_local_only; 'local-only' is notified when the value differed.
gtk_places_view_set_local_only(local_only) ==
  /\ pv' = gtk_places_view_real_set_local_only(pv, local_only)
  /\ notified' = IF pv.local_only # local_only THEN {"local-only"} ELSE {}
  /\ opened' = NoEmission
  /\ got' = NoReturn
  /\ UNCHANGED <<monitor, mounts, mounting, servers>>

\* The volume monitor reports a volume added, removed, mounted or
\* unmounted by someone else; update_places is the handler of its signals.
on_volume_monitor_changed(volume, state) ==
  /\ monitor[volume] # state
  /\ monitor' = [monitor EXCEPT ![volume] = state]
  /\ pv' = update_places(pv, monitor', mounts, servers)
  /\ opened' = NoEmission
  /\ notified' = {}
  /\ got' = NoReturn
  /\ UNCHANGED <<mounts, mounting, servers>>

\* The volume monitor reports a mount without volume added or removed.
on_mount_changed(mount, present) ==
  /\ mount \in mounts <=> ~present
  /\ mounts' = IF present THEN mounts \cup {mount} ELSE mounts \ {mount}
  /\ pv' = update_places(pv, monitor, mounts', servers)
  /\ opened' = NoEmission
  /\ notified' = {}
  /\ got' = NoReturn
  /\ UNCHANGED <<monitor, mounting, servers>>

\* mount_volume: a new cancellable replaces the stored one and the mount
\* is started.
mount_volume(volume) ==
  LET operation == [kind |-> "volume", target |-> volume]
  IN /\ operation \notin mounting
     /\ mounting' = mounting \cup {operation}
     /\ pv' = [pv EXCEPT !.connection_cancellable = operation]
     /\ opened' = NoEmission
     /\ notified' = {}
     /\ got' = NoReturn
     /\ UNCHANGED <<monitor, mounts, servers>>

\* mount_location.
mount_location(location) ==
  LET operation == [kind |-> "location", target |-> location]
  IN /\ operation \notin mounting
     /\ mounting' = mounting \cup {operation}
     /\ pv' = [pv EXCEPT !.connection_cancellable = operation]
     /\ opened' = NoEmission
     /\ notified' = {}
     /\ got' = NoReturn
     /\ UNCHANGED <<monitor, mounts, servers>>

\* activate_row: a row with a mount is opened, with GTK_PLACES_OPEN_NORMAL
\* whatever `flags` is; a row with a volume only has it mounted.
activate_row(row, flags) ==
  IF monitor[row] = "mounted"
    THEN /\ opened' = [by |-> "activate_row",
                       flags |-> emit_open_location(pv, {GTK_PLACES_OPEN_NORMAL})]
         /\ notified' = {}
         /\ got' = NoReturn
         /\ UNCHANGED <<pv, monitor, mounts, mounting, servers>>
    ELSE mount_volume(row)

\* on_listbox_row_activated, for a row of the drives or network list.
on_listbox_row_activated(row) ==
  activate_row(row, {GTK_PLACES_OPEN_NORMAL})

\* on_key_press_event with Return, Enter or space on the focused row, the
\* modifier state being "none", "shift" or "control".
on_key_press_event(row, state) ==
  LET open_flags == CASE state = "shift" -> {GTK_PLACES_OPEN_NEW_TAB}
                      [] state = "control" -> {GTK_PLACES_OPEN_NEW_WINDOW}
                      [] OTHER -> {GTK_PLACES_OPEN_NORMAL}
  IN activate_row(row, open_flags)

\* build_popup_menu: the items of the menu for a row.
build_popup_menu(view, row) ==
  {"open"}
    \cup (IF GTK_PLACES_OPEN_NEW_TAB \in view.open_flags
            THEN {"open_in_new_tab"} ELSE {})
    \cup (IF GTK_PLACES_OPEN_NEW_WINDOW \in view.open_flags
            THEN {"open_in_new_window"} ELSE {})
    \cup (IF monitor[row] = "mounted" THEN {"unmount"} ELSE {"mount"})

\* on_button_release_event with button 3 on a row: popup_menu destroys the
\* old menu, builds the new one and pops it up.
on_button_release_event(row) ==
  /\ pv' = [pv EXCEPT !.popup_menu =
              [row |-> row, items |-> build_popup_menu(pv, row),
               shown |-> TRUE]]
  /\ opened' = NoEmission
  /\ notified' = {}
  /\ got' = NoReturn
  /\ UNCHANGED <<monitor, mounts, mounting, servers>>

\* An item of the popup menu is activated, which pops the menu down.
PopupItemActivated(item) ==
  /\ pv.popup_menu.shown
  /\ item \in pv.popup_menu.items

\* open_cb.
open_cb ==
  /\ PopupItemActivated("open")
  /\ pv' = [pv EXCEPT !.popup_menu.shown = FALSE]
  /\ opened' = [by |-> "open_cb",
                flags |-> emit_open_location(pv, {GTK_PLACES_OPEN_NORMAL})]
  /\ notified' = {}
  /\ got' = NoReturn
  /\ UNCHANGED <<monitor, mounts, mounting, servers>>

\* open_in_new_tab_cb.
open_in_new_tab_cb ==
  /\ PopupItemActivated("open_in_new_tab")
  /\ pv' = [pv EXCEPT !.popup_menu.shown = FALSE]
  /\ opened' = [by |-> "open_in_new_tab_cb",
                flags |-> emit_open_location(pv, {GTK_PLACES_OPEN_NEW_TAB})]
  /\ notified' = {}
  /\ got' = NoReturn
  /\ UNCHANGED <<monitor, mounts, mounting, servers>>

\* open_in_new_window_cb.
open_in_new_window_cb ==
  /\ PopupItemActivated("open_in_new_window")
  /\ pv' = [pv EXCEPT !.popup_menu.shown = FALSE]
  /\ opened' = [by |-> "open_in_new_window_cb",
                flags |-> emit_open_location(pv, {GTK_PLACES_OPEN_NEW_WINDOW})]
  /\ notified' = {}
  /\ got' = NoReturn
  /\ UNCHANGED <<monitor, mounts, mounting, servers>>

\* mount_cb.
mount_cb ==
  /\ PopupItemActivated("mount")
  /\ LET operation == [kind |-> "volume", target |-> pv.popup_menu.row]
     IN /\ operation \notin mounting
        /\ mounting' = mounting \cup {operation}
        /\ pv' = [pv EXCEPT !.connection_cancellable = operation,
                            !.popup_menu.shown = FALSE]
  /\ opened' = NoEmission
  /\ notified' = {}
  /\ got' = NoReturn
  /\ UNCHANGED <<monitor, mounts, servers>>

\* unmount_cb: the unmount of the row's mount is started, without a
\* cancellable (NULL is passed); priv->connection_cancellable is not
\* touched.
unmount_cb ==
  /\ PopupItemActivated("unmount")
  /\ LET operation == [kind |-> "unmount", target |-> pv.popup_menu.row]
     IN /\ operation \notin mounting
        /\ mounting' = mounting \cup {operation}
  /\ pv' = [pv EXCEPT !.popup_menu.shown = FALSE]
  /\ opened' = NoEmission
  /\ notified' = {}
  /\ got' = NoReturn
  /\ UNCHANGED <<monitor, mounts, servers>>

\* on_address_entry_text_changed: the view after it, supported_protocols
\* being what g_vfs_get_supported_uri_schemes returned.
address_entry_changed(view, supported_protocols) ==
  LET scheme == g_uri_parse_scheme(view.address_entry.text)
      supported == IF scheme = NULL
                     THEN FALSE
                     ELSE /\ scheme \in supported_protocols.schemes
                          /\ scheme \notin unsupported_protocols
  IN IF supported_protocols.null
       THEN view
       ELSE [view EXCEPT !.connect_button.sensitive = supported]

\* gtk_entry_set_text on the address entry, whose 'changed' signal runs
\* on_address_entry_text_changed.
gtk_entry_set_text(view, text, supported_protocols) ==
  address_entry_changed([view EXCEPT !.address_entry.text = text],
                        supported_protocols)

\* on_address_entry_text_changed, the user having edited the entry into
\* `text`.
on_address_entry_text_changed(text, supported_protocols) ==
  /\ text # pv.address_entry.text
  /\ pv' = gtk_entry_set_text(pv, text, supported_protocols)
  /\ opened' = NoEmission
  /\ notified' = {}
  /\ got' = NoReturn
  /\ UNCHANGED <<monitor, mounts, mounting, servers>>

\* on_connect_button_clicked: nothing if the button is insensitive;
\* otherwise the entry is emptied and its text mounted, unless it is empty
\* (g_file_new_for_commandline_arg is not called, file stays NULL).
on_connect_button_clicked(supported_protocols) ==
  LET uri == pv.address_entry.text
      operation == [kind |-> "location", target |-> uri]
  IN /\ opened' = NoEmission
     /\ notified' = {}
     /\ got' = NoReturn
     /\ IF pv.connect_button.sensitive /\ uri # ""
          THEN /\ operation \notin mounting
               /\ mounting' = mounting \cup {operation}
               /\ pv' = [gtk_entry_set_text(pv, "", supported_protocols)
                           EXCEPT !.connection_cancellable = operation]
               /\ UNCHANGED <<monitor, mounts, servers>>
          ELSE UNCHANGED <<pv, monitor, mounts, mounting, servers>>

\* parse_error answering TRUE for every error.
parse_error_shows_every_error(outcome) == outcome # "ok"

\* parse_error.
parse_error(outcome) == outcome = "ALREADY_MOUNTED"

\* should_show, as the two mount callbacks compute it.
should_show(outcome) == outcome = "ok" \/ parse_error(outcome)

\* location_mount_ready_callback.  A mount that succeeded is in the
\* volume monitor, as is one found already mounted; the server is stored,
\* update_places called and the signal emitted only if should_show.
location_mount_ready_callback(operation, outcome) ==
  /\ operation \in mounting
  /\ operation.kind = "location"
  /\ outcome = "ALREADY_MOUNTED" => operation.target \in mounts
  /\ mounting' = mounting \ {operation}
  /\ mounts' = IF outcome = "ok"
                 THEN mounts \cup {operation.target}
                 ELSE mounts
  /\ IF should_show(outcome)
       THEN /\ servers' = servers \cup {operation.target}
            /\ pv' = update_places(
                       [pv EXCEPT !.connection_cancellable = NoOperation],
                       monitor, mounts', servers')
            /\ opened' = [by |-> "location_mount_ready_callback",
                          flags |-> emit_open_location(pv, pv.open_flags)]
       ELSE /\ pv' = [pv EXCEPT !.connection_cancellable = NoOperation]
            /\ opened' = NoEmission
            /\ UNCHANGED servers
  /\ notified' = {}
  /\ got' = NoReturn
  /\ UNCHANGED monitor

\* volume_mount_ready_callback: the volume is mounted if the mount
\* succeeded, the volume monitor's 'mount-added' having run update_places
\* by then; the signal is emitted with priv->open_flags as they are.
volume_mount_ready_callback(operation, outcome) ==
  /\ operation \in mounting
  /\ operation.kind = "volume"
  /\ outcome = "ALREADY_MOUNTED" => monitor[operation.target] = "mounted"
  /\ mounting' = mounting \ {operation}
  /\ monitor' = IF outcome = "ok"
                  THEN [monitor EXCEPT ![operation.target] = "mounted"]
                  ELSE monitor
  /\ pv' = IF outcome = "ok"
             THEN update_places(
                    [pv EXCEPT !.connection_cancellable = NoOperation],
                    monitor', mounts, servers)
             ELSE [pv EXCEPT !.connection_cancellable = NoOperation]
  /\ opened' = IF should_show(outcome)
                 THEN [by |-> "volume_mount_ready_callback",
                       flags |-> pv.open_flags]
                 ELSE NoEmission
  /\ notified' = {}
  /\ got' = NoReturn
  /\ UNCHANGED <<mounts, servers>>

\* What g_mount_unmount_with_operation_finish can report.
UnmountOutcomes == {"ok", "FAILED"}

\* unmount_ready_callback: clears priv->connection_cancellable and warns on
\* an error.  The volume is unmounted if the unmount succeeded, the volume
\* monitor's 'mount-removed' having run update_places by then.
unmount_ready_callback(operation, outcome) ==
  /\ operation \in mounting
  /\ operation.kind = "unmount"
  /\ outcome = "ok" => monitor[operation.target] = "mounted"
  /\ mounting' = mounting \ {operation}
  /\ monitor' = IF outcome = "ok"
                  THEN [monitor EXCEPT ![operation.target] = "unmounted"]
                  ELSE monitor
  /\ pv' = IF outcome = "ok"
             THEN update_places(
                    [pv EXCEPT !.connection_cancellable = NoOperation],
                    monitor', mounts, servers)
             ELSE [pv EXCEPT !.connection_cancellable = NoOperation]
  /\ opened' = NoEmission
  /\ notified' = {}
  /\ got' = NoReturn
  /\ UNCHANGED <<mounts, servers>>

(***************************************************************************)
(* The system.                                                             *)
(***************************************************************************)
\* The variables the proxy's operations leave alone.
other_vars == <<ret, registry_vars, places_vars>>

allvars == <<vars, other_vars>>

CallRecords ==
  [method : {"GetName", "GetStatus"}, seq : 1..(MaxUpdates + 1)]

Init ==
  /\ life = [i \in Instances |-> "unborn"]
  /\ priv = [i \in Instances |-> GtkCloudProviderPrivate]
  /\ connecting = [i \in Instances |-> FALSE]
  /\ calls = [i \in Instances |-> {}]
  /\ n_changed = [i \in Instances |-> 0]
  /\ hist = [i \in Instances |-> NoHistory]
  /\ srv = cloud_provider_init
  /\ crashed = FALSE
  /\ ret = NoCall
  /\ mgr = NoManager
  /\ files = [f \in Files |-> Absent]
  /\ pv = gtk_places_view_constructed
  /\ monitor = VolumeMonitorInit
  /\ mounts = {}
  /\ mounting = {}
  /\ servers = {}
  /\ opened = NoEmission
  /\ notified = {}
  /\ got = NoReturn

\* The example client and daemon: one proxy, its users and the daemon.
Next ==
  \/ /\ \E i \in Instances, d \in Descriptors : gtk_cloud_provider_new(i, d)
     /\ UNCHANGED other_vars
  \/ /\ \E i \in Instances, ok \in BOOLEAN : on_proxy_created(i, ok)
     /\ UNCHANGED other_vars
  \/ /\ \E i \in Instances : gtk_cloud_provider_update(i)
     /\ UNCHANGED other_vars
  \/ /\ \E i \in Instances, c \in CallRecords :
          \E r \in Replies(i, "GetName") : on_get_name(i, c, r)
     /\ UNCHANGED other_vars
  \/ /\ \E i \in Instances, c \in CallRecords :
          \E r \in Replies(i, "GetStatus") : on_get_status(i, c, r)
     /\ UNCHANGED other_vars
  \/ /\ \E i \in Instances : gtk_cloud_provider_finalize(i)
     /\ UNCHANGED other_vars
  \/ /\ \E ok \in BOOLEAN : on_manager_proxy_created(ok)
     /\ UNCHANGED other_vars
  \/ /\ \E s \in IDLE..ERROR : change_provider(s)
     /\ UNCHANGED other_vars

Spec == Init /\ [][Next]_allvars

\* A proxy, its users and the callers of its accessors; the daemon's timer
\* is not running.
AccessorNext ==
  \/ /\ \E i \in Instances, d \in Descriptors : gtk_cloud_provider_new(i, d)
     /\ UNCHANGED other_vars
  \/ /\ \E i \in Instances, ok \in BOOLEAN : on_proxy_created(i, ok)
     /\ UNCHANGED other_vars
  \/ /\ \E i \in Instances : gtk_cloud_provider_update(i)
     /\ UNCHANGED other_vars
  \/ /\ \E i \in Instances, c \in CallRecords :
          \E r \in Replies(i, "GetName") : on_get_name(i, c, r)
     /\ UNCHANGED other_vars
  \/ /\ \E i \in Instances, c \in CallRecords :
          \E r \in Replies(i, "GetStatus") : on_get_status(i, c, r)
     /\ UNCHANGED other_vars
  \/ /\ \E i \in Instances : gtk_cloud_provider_get_name(i)
     /\ UNCHANGED <<registry_vars, places_vars>>
  \/ /\ \E i \in Instances : gtk_cloud_provider_get_status(i)
     /\ UNCHANGED <<registry_vars, places_vars>>
  \/ /\ \E i \in Instances : gtk_cloud_provider_get_icon(i)
     /\ UNCHANGED <<registry_vars, places_vars>>
  \/ /\ \E i \in Instances : gtk_cloud_provider_get_menu(i)
     /\ UNCHANGED <<registry_vars, places_vars>>

SpecAccessors == Init /\ [][AccessorNext]_allvars

\* The replies the proxies of a registry get: what the example daemon
\* answers.
RegistryReplies(method_name) == {handle_method_call(srv, method_name)}

\* A process that has made no proxy and no registry yet.
RegistryInit ==
  /\ life = [i \in Providers |-> "unborn"]
  /\ priv = [i \in Providers |-> GtkCloudProviderPrivate]
  /\ connecting = [i \in Providers |-> FALSE]
  /\ calls = [i \in Providers |-> {}]
  /\ n_changed = [i \in Providers |-> 0]
  /\ hist = [i \in Providers |-> NoHistory]
  /\ srv = cloud_provider_init
  /\ crashed = FALSE
  /\ ret = NoCall
  /\ mgr = NoManager
  /\ files = [f \in Files |-> Absent]
  /\ pv = gtk_places_view_constructed
  /\ monitor = VolumeMonitorInit
  /\ mounts = {}
  /\ mounting = {}
  /\ servers = {}
  /\ opened = NoEmission
  /\ notified = {}
  /\ got = NoReturn

\* The registry, its users, the discovery source, and the completions of
\* the proxies it made.
RegistryNext ==
  \/ /\ gtk_cloud_provider_manager_dup_singleton
     /\ UNCHANGED places_vars
  \/ /\ \E source \in [Files -> FileContents] :
          gtk_cloud_provider_manager_update(source)
     /\ UNCHANGED places_vars
  \/ \E i \in Providers, ok \in BOOLEAN :
       /\ on_proxy_created(i, ok)
       /\ on_cloud_provider_changed(i)
       /\ UNCHANGED <<files, ret, places_vars>>
  \/ \E i \in Providers, c \in CallRecords :
       \E r \in RegistryReplies("GetName") :
         /\ on_get_name(i, c, r)
         /\ on_cloud_provider_changed(i)
         /\ UNCHANGED <<files, ret, places_vars>>
  \/ \E i \in Providers, c \in CallRecords :
       \E r \in RegistryReplies("GetStatus") :
         /\ on_get_status(i, c, r)
         /\ on_cloud_provider_changed(i)
         /\ UNCHANGED <<files, ret, places_vars>>

SpecRegistry == RegistryInit /\ [][RegistryNext]_allvars

\* A places view, its user, the application setting its open flags, the
\* volume monitor and the completions of the mounts it started.
PlacesNext ==
  \/ /\ \E flags \in GtkPlacesOpenFlags : gtk_places_view_set_open_flags(flags)
     /\ UNCHANGED <<vars, ret, registry_vars>>
  \/ /\ \E checks \in BOOLEAN : gtk_places_view_get_open_flags(checks)
     /\ UNCHANGED <<vars, ret, registry_vars>>
  \/ /\ \E local_only \in Gbooleans :
          gtk_places_view_set_local_only(local_only)
     /\ UNCHANGED <<vars, ret, registry_vars>>
  \/ /\ gtk_places_view_get_local_only
     /\ UNCHANGED <<vars, ret, registry_vars>>
  \/ /\ \E volume \in Volumes, state \in {"unmounted", "mounted"} :
          on_volume_monitor_changed(volume, state)
     /\ UNCHANGED <<vars, ret, registry_vars>>
  \/ /\ \E row \in Volumes : on_listbox_row_activated(row)
     /\ UNCHANGED <<vars, ret, registry_vars>>
  \/ /\ \E row \in Volumes, state \in {"none", "shift", "control"} :
          on_key_press_event(row, state)
     /\ UNCHANGED <<vars, ret, registry_vars>>
  \/ /\ \E row \in Volumes : on_button_release_event(row)
     /\ UNCHANGED <<vars, ret, registry_vars>>
  \/ /\ open_cb
     /\ UNCHANGED <<vars, ret, registry_vars>>
  \/ /\ open_in_new_tab_cb
     /\ UNCHANGED <<vars, ret, registry_vars>>
  \/ /\ open_in_new_window_cb
     /\ UNCHANGED <<vars, ret, registry_vars>>
  \/ /\ mount_cb
     /\ UNCHANGED <<vars, ret, registry_vars>>
  \/ /\ \E operation \in mounting, outcome \in MountOutcomes :
          volume_mount_ready_callback(operation, outcome)
     /\ UNCHANGED <<vars, ret, registry_vars>>

SpecPlaces == Init /\ [][PlacesNext]_allvars

\* A places view whose user types addresses, clicks Connect and activates
\* rows, and the completions of the mounts so started.
ConnectNext ==
  \/ /\ \E text \in AddressTexts, supported_protocols \in SupportedUriSchemes :
          on_address_entry_text_changed(text, supported_protocols)
     /\ UNCHANGED <<vars, ret, registry_vars>>
  \/ /\ \E supported_protocols \in SupportedUriSchemes :
          on_connect_button_clicked(supported_protocols)
     /\ UNCHANGED <<vars, ret, registry_vars>>
  \/ /\ \E operation \in mounting, outcome \in MountOutcomes :
          location_mount_ready_callback(operation, outcome)
     /\ UNCHANGED <<vars, ret, registry_vars>>
  \/ /\ \E row \in Volumes : on_listbox_row_activated(row)
     /\ UNCHANGED <<vars, ret, registry_vars>>
  \/ /\ \E operation \in mounting, outcome \in MountOutcomes :
          volume_mount_ready_callback(operation, outcome)
     /\ UNCHANGED <<vars, ret, registry_vars>>

SpecConnect == Init /\ [][ConnectNext]_allvars

\* A places view and its volume monitor, which reports volumes and mounts
\* coming and going.
MonitorNext ==
  \/ /\ \E volume \in GVolumes, state \in {"absent", "unmounted", "mounted"} :
          on_volume_monitor_changed(volume, state)
     /\ UNCHANGED <<vars, ret, registry_vars>>
  \/ /\ \E mount \in GMounts \cup Addresses, present \in BOOLEAN :
          on_mount_changed(mount, present)
     /\ UNCHANGED <<vars, ret, registry_vars>>

SpecMonitor == Init /\ [][MonitorNext]_allvars

\* A places view whose user starts mounts and unmounts from the rows, their
\* popup menu and the address entry, and the completions of these
\* operations.
MountNext ==
  \/ /\ \E text \in AddressTexts, supported_protocols \in SupportedUriSchemes :
          on_address_entry_text_changed(text, supported_protocols)
     /\ UNCHANGED <<vars, ret, registry_vars>>
  \/ /\ \E supported_protocols \in SupportedUriSchemes :
          on_connect_button_clicked(supported_protocols)
     /\ UNCHANGED <<vars, ret, registry_vars>>
  \/ /\ \E row \in Volumes : on_listbox_row_activated(row)
     /\ UNCHANGED <<vars, ret, registry_vars>>
  \/ /\ \E row \in Volumes : on_button_release_event(row)
     /\ UNCHANGED <<vars, ret, registry_vars>>
  \/ /\ mount_cb
     /\ UNCHANGED <<vars, ret, registry_vars>>
  \/ /\ unmount_cb
     /\ UNCHANGED <<vars, ret, registry_vars>>
  \/ /\ \E operation \in mounting, outcome \in MountOutcomes :
          location_mount_ready_callback(operation, outcome)
     /\ UNCHANGED <<vars, ret, registry_vars>>
  \/ /\ \E operation \in mounting, outcome \in MountOutcomes :
          volume_mount_ready_callback(operation, outcome)
     /\ UNCHANGED <<vars, ret, registry_vars>>
  \/ /\ \E operation \in mounting, outcome \in UnmountOutcomes :
          unmount_ready_callback(operation, outcome)
     /\ UNCHANGED <<vars, ret, registry_vars>>

SpecMounts == Init /\ [][MountNext]_allvars

\* The delivery of the completion of call c of instance i, by its method's
\* callback, with whatever g_dbus_proxy_call_finish yields.
Complete(i, c) ==
  /\ \/ \E r \in Replies(i, "GetName") : on_get_name(i, c, r)
     \/ \E r \in Replies(i, "GetStatus") : on_get_status(i, c, r)
  /\ UNCHANGED other_vars

\* A proxy, its users and the bus; the daemon's timer is not running.
TransportNext ==
  \/ /\ \E i \in Instances, d \in Descriptors : gtk_cloud_provider_new(i, d)
     /\ UNCHANGED other_vars
  \/ /\ \E i \in Instances, ok \in BOOLEAN : on_proxy_created(i, ok)
     /\ UNCHANGED other_vars
  \/ /\ \E i \in Instances : gtk_cloud_provider_update(i)
     /\ UNCHANGED other_vars
  \/ \E i \in Instances, c \in CallRecords : Complete(i, c)
  \/ /\ \E i \in Instances : gtk_cloud_provider_finalize(i)
     /\ UNCHANGED other_vars

\* The bus completes every call it accepted: g_dbus_proxy_call is given the
\* default timeout (-1), so a call without a reply completes with an error;
\* the main loop dispatches every completion it has pending.
SpecTransport ==
  /\ Init
  /\ [][TransportNext]_allvars
  /\ \A i \in Instances, c \in CallRecords : WF_allvars(Complete(i, c))

(***************************************************************************)
(* Properties.                                                             *)
(***************************************************************************)
Live(i) == life[i] = "live"

\* The step completes a call of instance i.
CompletionStep(i) == hist'[i].n_done = hist[i].n_done + 1

\* The step completes a call of instance i of the given method, with the
\* given outcome ("ok" or "error").
CompletionOf(i, method_name, tag) ==
  /\ CompletionStep(i)
  /\ \E c \in calls[i] \ calls'[i] : c.method = method_name
  /\ IF method_name = "GetName"
       THEN hist'[i].last_name.tag = tag
       ELSE hist'[i].last_status.tag = tag

\* C1: once an instance is finalized, no later step (the completion of its
\* proxy construction or of a GetName / GetStatus call still in flight)
\* changes its private data or emits "changed" for it.
C1_NoEffectAfterFinalize ==
  [][\A i \in Instances :
       life[i] = "finalized" =>
         /\ priv'[i] = priv[i]
         /\ n_changed'[i] = n_changed[i]]_vars

\* C2: a GetName or GetStatus call of a live instance that completes with
\* an error leaves the private data (name, status and the rest) as it was
\* and emits "changed" exactly once.
C2_FailedReplyKeepsFields ==
  [][\A i \in Instances :
       (Live(i) /\ (\/ CompletionOf(i, "GetName", "error")
                    \/ CompletionOf(i, "GetStatus", "error"))) =>
         /\ priv'[i] = priv[i]
         /\ n_changed'[i] = n_changed[i] + 1]_vars

\* C2 witness: a GetName call failed after a name had been cached, and the
\* name is still there.
C2_Witness ==
  \E i \in Instances :
    /\ Live(i)
    /\ hist[i].last_name.tag = "error"
    /\ priv[i].name \in Names
    /\ n_changed[i] >= 3

\* C3: when the two calls of a refresh of a live instance have completed,
\* one with an error and the other with a reply, and nothing is in flight,
\* the field of the reply holds the replied value, the field of the failed
\* call holds what it held before (the value of the last earlier successful
\* reply, or the default), and two "changed" have been emitted per refresh.
C3_OneFailsOneSucceeds ==
  \A i \in Instances :
    (/\ Live(i)
     /\ calls[i] = {}
     /\ hist[i].last_name.seq = hist[i].last_status.seq
     /\ {hist[i].last_name.tag, hist[i].last_status.tag} = {"ok", "error"}) =>
      /\ priv[i].name = hist[i].ok_name
      /\ priv[i].status = IF hist[i].ok_status = -1
                            THEN GTK_CLOUD_PROVIDER_STATUS_INVALID
                            ELSE hist[i].ok_status
      /\ hist[i].last_name.tag = "ok" => priv[i].name \in Names
      /\ hist[i].last_status.tag = "ok" => hist[i].ok_status # -1
      /\ n_changed[i] = 2 * hist[i].n_refresh

\* C3 witness: in the second refresh GetName failed and GetStatus replied
\* 3; the name of the first refresh is kept and the status is 3.
C3_Witness ==
  \E i \in Instances :
    /\ Live(i)
    /\ calls[i] = {}
    /\ hist[i].n_refresh = 2
    /\ hist[i].last_name = [tag |-> "error", seq |-> 2]
    /\ hist[i].last_status = [tag |-> "ok", seq |-> 2]
    /\ priv[i].name = "Other"
    /\ priv[i].status = 3
    /\ n_changed[i] = 4

\* C4: gtk_cloud_provider_update on a live instance that has no proxy (the
\* construction is still in flight, or failed) issues no call, emits no
\* "changed" and leaves the private data as it was.
C4_UpdateUnconnectedNoOp ==
  [][\A i \in Instances :
       (/\ Live(i)
        /\ hist'[i].n_update = hist[i].n_update + 1
        /\ priv[i].proxy = NULL) =>
         /\ calls'[i] = calls[i]
         /\ hist'[i].n_issued = hist[i].n_issued
         /\ n_changed'[i] = n_changed[i]
         /\ priv'[i] = priv[i]]_vars

\* C4 witness: update has been called on an instance whose proxy
\* construction is still in flight.
C4_Witness ==
  \E i \in Instances :
    /\ Live(i)
    /\ hist[i].n_update >= 1
    /\ priv[i].proxy = NULL
    /\ connecting[i]
    /\ calls[i] = {}

\* C5 as claimed: on a live instance a cached name never returns to NULL
\* and a status other than Invalid never returns to Invalid.
C5_NeverRegresses ==
  [][\A i \in Instances :
       (Live(i) /\ life'[i] = "live") =>
         /\ priv[i].name # NULL => priv'[i].name # NULL
         /\ priv[i].status # GTK_CLOUD_PROVIDER_STATUS_INVALID
              => priv'[i].status # GTK_CLOUD_PROVIDER_STATUS_INVALID]_vars

\* C5 as amended: on a live instance a cached name never returns to NULL,
\* and a status other than Invalid returns to Invalid only by the
\* completion of a successful GetStatus reply that carries 0: no refresh,
\* failed reply or GetName reply resets it.
C5_RegressesOnlyByReply ==
  [][\A i \in Instances :
       (Live(i) /\ life'[i] = "live") =>
         /\ priv[i].name # NULL => priv'[i].name # NULL
         /\ (/\ priv[i].status # GTK_CLOUD_PROVIDER_STATUS_INVALID
             /\ priv'[i].status = GTK_CLOUD_PROVIDER_STATUS_INVALID)
              => /\ CompletionOf(i, "GetStatus", "ok")
                 /\ hist'[i].ok_status = 0]_vars

\* C5 witness: name and status were cached, then both calls of a later
\* refresh failed, and both are still cached.
C5_Witness ==
  \E i \in Instances :
    /\ Live(i)
    /\ hist[i].last_name = [tag |-> "error", seq |-> 2]
    /\ hist[i].last_status = [tag |-> "error", seq |-> 2]
    /\ priv[i].name # NULL
    /\ priv[i].status # GTK_CLOUD_PROVIDER_STATUS_INVALID

\* C6: the cached status of a live instance is always one of Invalid,
\* Idle, Syncing, Error.
C6_StatusIsEnumValue ==
  \A i \in Instances :
    Live(i) =>
      priv[i].status \in {GTK_CLOUD_PROVIDER_STATUS_INVALID,
                          GTK_CLOUD_PROVIDER_STATUS_IDLE,
                          GTK_CLOUD_PROVIDER_STATUS_SYNCING,
                          GTK_CLOUD_PROVIDER_STATUS_ERROR}

\* The GtkCloudProviderStatus that names the example daemon's state d.
StatusNamedLike(d) ==
  CASE d = IDLE -> GTK_CLOUD_PROVIDER_STATUS_IDLE
    [] d = SYNCING -> GTK_CLOUD_PROVIDER_STATUS_SYNCING
    [] d = ERROR -> GTK_CLOUD_PROVIDER_STATUS_ERROR

\* C7: after a successful GetStatus reply of the example daemon, sent in
\* its state IDLE, SYNCING or ERROR, the cached status of the live instance
\* is Idle, Syncing or Error respectively.
C7_ExampleDaemonStatusAgrees ==
  \A i \in Instances :
    (/\ Live(i)
     /\ priv[i].bus_name = ExampleDescriptor.bus_name
     /\ hist[i].ok_status # -1) =>
      priv[i].status = StatusNamedLike(hist[i].ok_status)

\* C8: a live instance whose proxy construction succeeded and on which no
\* user called update has made exactly one refresh (two calls); it has
\* emitted one "changed" per completed call and none for the construction;
\* and once both calls have completed with replies, name and status are the
\* replied values and exactly two "changed" have been emitted.
C8_ImplicitFirstRefresh ==
  \A i \in Instances :
    (Live(i) /\ hist[i].n_update = 0 /\ priv[i].proxy # NULL) =>
      /\ hist[i].n_refresh = 1
      /\ hist[i].n_issued = 2
      /\ Cardinality(calls[i]) + hist[i].n_done = 2
      /\ n_changed[i] = hist[i].n_done
      /\ (/\ calls[i] = {}
          /\ hist[i].last_name.tag = "ok"
          /\ hist[i].last_status.tag = "ok") =>
            /\ priv[i].name = hist[i].ok_name
            /\ priv[i].name \in Names
            /\ priv[i].status = hist[i].ok_status
            /\ n_changed[i] = 2

\* C8 witness: the scenario of the provider org.example.Cloud: connected,
\* no update by a user, GetName replied "MyCloud" and GetStatus replied 2.
C8_Witness ==
  \E i \in Instances :
    /\ Live(i)
    /\ priv[i].bus_name = OtherDescriptor.bus_name
    /\ hist[i].n_update = 0
    /\ calls[i] = {}
    /\ hist[i].last_name.tag = "ok"
    /\ hist[i].last_status.tag = "ok"
    /\ priv[i].name = "MyCloud"
    /\ priv[i].status = GTK_CLOUD_PROVIDER_STATUS_SYNCING
    /\ n_changed[i] = 2

\* C9: the "changed" emissions of a live instance number exactly the
\* GetName / GetStatus completions delivered to it, and an instance not yet
\* created has emitted none.
C9_OneChangedPerCompletion ==
  \A i \in Instances :
    /\ Live(i) => n_changed[i] = hist[i].n_done
    /\ life[i] = "unborn" => n_changed[i] = 0

\* C9 witness: three completions, a failed and a successful one among
\* them, a call still in flight, after an update by a user.
C9_Witness ==
  \E i \in Instances :
    /\ Live(i)
    /\ hist[i].n_update >= 1
    /\ hist[i].n_done = 3
    /\ n_changed[i] = 3
    /\ hist[i].last_name.tag = "error"
    /\ hist[i].last_status.tag = "ok"
    /\ calls[i] # {}

\* C10: on a live instance, name is the value of the most recently
\* completed successful GetName reply and status that of the most recently
\* completed successful GetStatus reply (the defaults before the first),
\* whatever the order in which the calls were issued and completed.
C10_LastCompletedWins ==
  \A i \in Instances :
    Live(i) =>
      /\ priv[i].name = hist[i].ok_name
      /\ priv[i].status = IF hist[i].ok_status = -1
                            THEN GTK_CLOUD_PROVIDER_STATUS_INVALID
                            ELSE hist[i].ok_status

\* C10 witness: two refreshes overlapped and the calls of the first one
\* completed last, with replies: both calls of the second refresh completed
\* while those of the first were in flight.
C10_Witness ==
  \E i \in Instances :
    /\ Live(i)
    /\ hist[i].n_refresh = 2
    /\ calls[i] = {}
    /\ hist[i].last_name = [tag |-> "ok", seq |-> 1]
    /\ hist[i].last_status = [tag |-> "ok", seq |-> 1]
    /\ priv[i].name = "Other"
    /\ priv[i].status = 3

\* The proxy construction of instance i has completed with an error.
ConnectionFailed(i) == ~connecting[i] /\ priv[i].proxy = NULL

\* C11: a live instance whose proxy construction failed stays without a
\* proxy and without a construction in flight as long as it lives; it has
\* no call in flight and has issued none, whatever updates its users make;
\* it has emitted no "changed"; and name, status, icon and menu are NULL,
\* Invalid, NULL and NULL.
C11_FailedConnectionIsTerminal ==
  [][\A i \in Instances :
       /\ (Live(i) /\ ConnectionFailed(i) /\ life'[i] = "live")
            => ConnectionFailed(i)'
       /\ (life'[i] = "live" /\ ConnectionFailed(i)') =>
            /\ calls'[i] = {}
            /\ hist'[i].n_issued = 0
            /\ n_changed'[i] = 0
            /\ priv'[i].name = NULL
            /\ priv'[i].status = GTK_CLOUD_PROVIDER_STATUS_INVALID
            /\ priv'[i].icon = NULL
            /\ priv'[i].menu = NULL]_vars

\* C11 witness: the construction failed and a user has called update since.
C11_Witness ==
  \E i \in Instances :
    /\ Live(i)
    /\ ConnectionFailed(i)
    /\ hist[i].n_update >= 1
    /\ calls[i] = {}
    /\ n_changed[i] = 0

\* C12: on a live instance, a step that makes a refresh with a proxy (an
\* update by a user, or the one of on_proxy_created) puts exactly one
\* GetName and one GetStatus call in flight, no other step puts a call in
\* flight, and the calls in flight and completed number twice the refreshes
\* made with a proxy.
C12_TwoCallsPerRefresh ==
  [][\A i \in Instances :
       (Live(i) /\ life'[i] = "live") =>
         LET new == calls'[i] \ calls[i]
         IN /\ IF hist'[i].n_refresh = hist[i].n_refresh + 1
                 THEN /\ Cardinality(new) = 2
                      /\ {c.method : c \in new} = {"GetName", "GetStatus"}
                      /\ calls[i] \subseteq calls'[i]
                 ELSE new = {}
            /\ Cardinality(calls'[i]) + hist'[i].n_done
                 = 2 * hist'[i].n_refresh]_vars

\* C12 witness: two refreshes with a proxy, one of them by a user, and an
\* update by nobody else: four calls issued, one completed.
C12_Witness ==
  \E i \in Instances :
    /\ Live(i)
    /\ hist[i].n_update = 1
    /\ hist[i].n_refresh = 2
    /\ Cardinality(calls[i]) = 3
    /\ hist[i].n_done = 1

\* C13: for a live instance, the proxy construction is started by
\* gtk_cloud_provider_new and never again; a proxy, once stored, stays
\* until the instance is finalized; no proxy is stored while the
\* construction is in flight; and calls are put in flight only when the
\* proxy is there.
C13_ConnectionMovesForward ==
  [][\A i \in Instances :
       life'[i] = "live" =>
         /\ life[i] = "unborn" => connecting'[i] /\ priv'[i].proxy = NULL
         /\ Live(i) =>
              /\ ~connecting[i] => ~connecting'[i]
              /\ priv[i].proxy # NULL => priv'[i].proxy # NULL
              /\ connecting'[i] => priv'[i].proxy = NULL
              /\ calls'[i] \ calls[i] # {}
                   => priv'[i].proxy # NULL /\ ~connecting'[i]]_vars

\* C13 witness: an instance went from construction in flight to a stored
\* proxy and has made two refreshes with it.
C13_Witness ==
  \E i \in Instances :
    /\ Live(i)
    /\ ~connecting[i]
    /\ priv[i].proxy = GDBusProxy
    /\ hist[i].n_refresh = 2
    /\ hist[i].n_done >= 1

\* The step is a call of an accessor whose return differs from the
\* previous call's.
AccessorStep == ret' # ret

\* The cached value the accessor named in a return reads.
CachedValue(r) ==
  [fn |-> r.fn, self |-> r.self,
   sval |-> CASE r.fn = "get_name" -> priv[r.self].name
              [] r.fn = "get_icon" -> priv[r.self].icon
              [] r.fn = "get_menu" -> priv[r.self].menu
              [] OTHER -> NULL,
   ival |-> IF r.fn = "get_status" THEN priv[r.self].status ELSE 0]

\* C14: a call of get_name, get_status, get_icon or get_menu on a live
\* instance, whatever the state of its connection and calls, returns the
\* field as it is cached at the call and leaves every field, the proxy, the
\* construction and the calls in flight, the emission count and the history
\* as they were.
C14_AccessorsArePureReads ==
  [][AccessorStep =>
       /\ UNCHANGED vars
       /\ ret'.fn \in {"get_name", "get_status", "get_icon", "get_menu"}
       /\ ret' = CachedValue(ret')]_allvars

\* C14 witness: get_status returned a status stored by a reply while calls
\* of a later refresh are still in flight.
C14_Witness ==
  /\ ret.fn = "get_status"
  /\ ret.ival = priv[ret.self].status
  /\ ret.ival # GTK_CLOUD_PROVIDER_STATUS_INVALID
  /\ calls[ret.self] # {}
  /\ Live(ret.self)

\* The descriptors the discovery source, holding fs, advertises.
AdvertisedIn(fs) ==
  {d \in Descriptors : \E f \in Files : fs[f] = KeyFile(d)}

\* The proxies the registry holds.
Held == Range(mgr.providers)

\* The step is an update of the registry that read another discovery
\* source than the update before it, or changed the list, or is the first.
RescanStep ==
  \/ files' # files
  \/ mgr'.providers # mgr.providers
  \/ mgr'.scanned # mgr.scanned

\* C15: once an update has run, whatever the discovery source held at the
\* updates so far, the proxies the registry holds are live, no two of them
\* are for the same descriptor, and their descriptors are exactly those the
\* discovery source advertised at the most recent update.
C15_ProvidersMatchDiscovery ==
  mgr.scanned =>
    /\ \A i \in Held : Live(i)
    /\ {DescriptorOf(priv[i]) : i \in Held} = AdvertisedIn(files)
    /\ \A j, k \in 1..Len(mgr.providers) :
         DescriptorOf(priv[mgr.providers[j]])
           = DescriptorOf(priv[mgr.providers[k]]) => j = k

\* C15 witness: after a proxy was removed, an update found two files
\* advertising the same descriptor and the registry holds one proxy for it.
C15_Witness ==
  /\ mgr.scanned
  /\ files["a.ini"] = KeyFile(ExampleDescriptor)
  /\ files["b.ini"] = KeyFile(ExampleDescriptor)
  /\ Len(mgr.providers) = 1
  /\ \E i \in Providers : life[i] = "finalized"

\* C16: a step in which a proxy the registry holds emits "changed" k times
\* has the registry emit "changed" k times; an update that adds or removes
\* a proxy has the registry emit "changed" once, and one that does neither,
\* not at all; and a proxy whose descriptor the update no longer finds is
\* gone from the list after it, with that one emission.
C16_AggregatedChanged ==
  [][/\ \A i \in Held :
          n_changed'[i] # n_changed[i]
            => mgr'.emitted = n_changed'[i] - n_changed[i]
     /\ RescanStep =>
          /\ mgr'.emitted = IF Held' # Held THEN 1 ELSE 0
          /\ \A i \in Held :
               DescriptorOf(priv[i]) \notin AdvertisedIn(files')
                 => i \notin Held' /\ mgr'.emitted = 1]_allvars

\* C16 witness: an update has removed the only proxy, which had emitted
\* nothing, as no proxy has, and the registry emitted "changed" once.
C16_Witness ==
  /\ mgr.emitted = 1
  /\ mgr.providers = <<>>
  /\ \E i \in Providers : life[i] = "finalized"
  /\ \A i \in Providers : n_changed[i] = 0

\* C17: an update leaves each proxy held whose descriptor it still finds in
\* the list, live, with its private data, its construction and calls in
\* flight, its emission count and its history as they were, and puts no
\* call in flight for any proxy; a call is put in flight for a live proxy
\* only by the completion of its construction, as its first refresh.
C17_UpdateLeavesSurvivorsAlone ==
  [][/\ RescanStep =>
          /\ calls' = calls
          /\ \A i \in Held :
               DescriptorOf(priv[i]) \in AdvertisedIn(files') =>
                 /\ i \in Held'
                 /\ life'[i] = "live"
                 /\ priv'[i] = priv[i]
                 /\ connecting'[i] = connecting[i]
                 /\ hist'[i] = hist[i]
                 /\ n_changed'[i] = n_changed[i]
     /\ \A i \in Providers :
          (Live(i) /\ ~(calls'[i] \subseteq calls[i])) =>
            /\ connecting[i] /\ ~connecting'[i]
            /\ hist[i].n_refresh = 0
            /\ hist'[i].n_refresh = 1]_allvars

\* C17 witness: the registry holds the proxy made second alone, with the
\* two calls of its first refresh in flight, the proxy made first having
\* been removed.
C17_Witness ==
  /\ mgr.providers = <<"p2">>
  /\ life["p1"] = "finalized"
  /\ Live("p2")
  /\ Cardinality(calls["p2"]) = 2
  /\ hist["p2"].n_refresh = 1

\* C18: at most one registry is ever created, and every call of
\* gtk_cloud_provider_manager_dup_singleton so far has returned it.
C18_OneRegistry ==
  /\ mgr.n_created <= 1
  /\ mgr.n_dup >= 1 => mgr.self = 1 /\ mgr.returned = {1}

\* C18 witness: dup_singleton has been called twice, completions of the
\* proxies' operations have run and others are in flight.
C18_Witness ==
  /\ mgr.n_dup = 2
  /\ mgr.returned = {mgr.self}
  /\ \E i \in Providers : Live(i) /\ hist[i].n_done = 1 /\ calls[i] # {}

\* C19: after an update that found a malformed descriptor file, every
\* descriptor the discovery source advertised in its other files has a live
\* proxy in the list, and no proxy is for a descriptor lacking a part.
C19_MalformedFileIsSkipped ==
  (mgr.scanned /\ \E f \in Files : files[f] = Malformed) =>
    /\ \A d \in AdvertisedIn(files) :
         \E i \in Held : Live(i) /\ DescriptorOf(priv[i]) = d
    /\ \A i \in Held : priv[i].bus_name # NULL /\ priv[i].object_path # NULL

\* C19 witness: an update found a malformed file and a file advertising a
\* descriptor, and the registry holds a live proxy for that descriptor.
C19_Witness ==
  /\ mgr.scanned
  /\ files["a.ini"] = Malformed
  /\ files["b.ini"] = KeyFile(OtherDescriptor)
  /\ Len(mgr.providers) = 1
  /\ \A i \in Held : Live(i) /\ DescriptorOf(priv[i]) = OtherDescriptor

\* C20: every 'open-location' emission carries one single flag that is set
\* in priv->open_flags, or GTK_PLACES_OPEN_NORMAL when no flag is set
\* there, whether it comes from the activation of a row, an Open item of
\* the popup menu, or the completion of a volume or location mount.
C20_EmissionCarriesOneEnabledFlag ==
  opened.by # "none" =>
    IF pv.open_flags = {}
      THEN opened.flags = {GTK_PLACES_OPEN_NORMAL}
      ELSE \E flag \in pv.open_flags : opened.flags = {flag}

\* C21: a network address connected to through the Connect button is in the
\* stored server list once its mount attempt has completed, whether the
\* attempt succeeded or failed.
C21_ConnectedAddressIsStored ==
  [][\A operation \in mounting :
       (operation.kind = "location" /\ operation \notin mounting')
         => operation.target \in servers']_allvars

\* The step is the completion of `operation` with `outcome`.
MountCompletion(operation, outcome) ==
  \/ location_mount_ready_callback(operation, outcome)
  \/ volume_mount_ready_callback(operation, outcome)

\* C26: the completion of a mount the view started emits 'open-location'
\* if and only if the mount succeeded or failed with
\* G_IO_ERROR_ALREADY_MOUNTED; cancelled, failed-handled and any other
\* failure emit nothing.
C26_EmissionIffMountUsable ==
  [][\A operation \in mounting, outcome \in MountOutcomes :
       MountCompletion(operation, outcome)
         => (opened'.by # "none"
               <=> outcome \in {"ok", "ALREADY_MOUNTED"})]_allvars

\* A mount started from the Connect button has completed and its location
\* was opened.
C26_Witness ==
  /\ opened.by = "location_mount_ready_callback"
  /\ [kind |-> "location", target |-> "sftp://host"] \notin mounting
  /\ "sftp://host" \in servers
  /\ monitor["volume1"] = "mounted"

\* The step delivers the completion of a call of instance i to method
\* method_name.
CompletedCall(i, method_name) ==
  \E c \in calls[i] \ calls'[i] : c.method = method_name

\* C24: the cached name of a proxy changes only in a step that completes
\* one of its own GetName calls, and its cached status only in a step that
\* completes one of its own GetStatus calls; construction, connection
\* completion, refresh and the other method's completion leave the field
\* as it was.
C24_FieldsChangeOnlyInOwnHandler ==
  [][\A i \in DOMAIN priv :
       /\ priv'[i].name # priv[i].name => CompletedCall(i, "GetName")
       /\ priv'[i].status # priv[i].status
            => CompletedCall(i, "GetStatus")]_allvars

\* Both calls of a refresh have completed successfully, each having stored
\* its own field.
C24_Witness ==
  \E i \in DOMAIN priv :
    /\ Live(i)
    /\ hist[i].last_name.tag = "ok"
    /\ hist[i].last_status.tag = "ok"
    /\ priv[i].name # NULL
    /\ priv[i].status # 0
    /\ calls[i] = {}

\* Every reply a call to method_name can complete with.
AnyReply(method_name) ==
  {TransportError} \cup
  IF method_name = "GetName"
    THEN {[tag |-> "ok", sval |-> n, ival |-> 0] : n \in Names}
    ELSE {[tag |-> "ok", sval |-> NULL, ival |-> v] : v \in ReplyInts}

\* The cached state of all proxies, being ps, after the completion of call
\* c of instance i with reply r.
CachesAfter(ps, i, c, r) ==
  [ps EXCEPT ![i] = IF c.method = "GetName"
                      THEN on_get_name_priv(@, r)
                      ELSE on_get_status_priv(@, r)]

\* Two calls in flight, of different methods or of different proxies, leave
\* the same cached state whichever completes first.
CompletionsCommute ==
  \A i \in DOMAIN calls, j \in DOMAIN calls :
    \A c \in calls[i], d \in calls[j] :
      (i # j \/ c.method # d.method) =>
        \A r \in AnyReply(c.method), q \in AnyReply(d.method) :
          CachesAfter(CachesAfter(priv, i, c, r), j, d, q)
            = CachesAfter(CachesAfter(priv, j, d, q), i, c, r)

\* A completion that does not kill the process leaves the cached state
\* CachesAfter gives.
CompletionStoresReply ==
  \A i \in DOMAIN calls :
    \A c \in calls[i] :
      \A r \in AnyReply(c.method) :
        ((on_get_name(i, c, r) \/ on_get_status(i, c, r)) /\ ~crashed')
          => priv' = CachesAfter(priv, i, c, r)

\* C25: the completions of the calls in flight may be delivered in any
\* order, and the cached state of every proxy once they are all delivered
\* is the same for every order of two completions that belong to different
\* fields or to different proxies.
C25_CompletionOrderIsImmaterial ==
  []CompletionsCommute /\ [][CompletionStoresReply]_allvars

\* The calls of two proxies complete interleaved: the GetName call of one
\* and the GetStatus call of the other are done, the other two in flight.
C25_Witness ==
  \E i \in DOMAIN calls, j \in DOMAIN calls :
    /\ i # j
    /\ Live(i) /\ Live(j)
    /\ hist[i].last_name.tag = "ok" /\ hist[i].last_status.tag = "none"
    /\ hist[j].last_status.tag = "ok" /\ hist[j].last_name.tag = "none"
    /\ \E c \in calls[i] : c.method = "GetStatus"
    /\ \E d \in calls[j] : d.method = "GetName"

\* C30: the example daemon answers GetName with its current name and
\* GetStatus with its current status; every change of its status takes it
\* to IDLE, SYNCING or ERROR, happens after the creation of the manager
\* proxy has completed, and comes with exactly one CloudProviderChanged
\* call to the manager service.
C30_StatusChangeTellsManager ==
  [][/\ handle_method_call(srv', "GetName").sval = srv'.name
     /\ handle_method_call(srv', "GetStatus").ival = srv'.status
     /\ srv'.status # srv.status =>
          /\ srv'.status \in {IDLE, SYNCING, ERROR}
          /\ srv.manager_proxy # "pending"
          /\ srv'.changed_calls = srv.changed_calls + 1]_allvars

\* C22: gtk_places_view_get_open_flags on a GtkPlacesView returns the flags
\* most recently passed to gtk_places_view_set_open_flags
\* (GTK_PLACES_OPEN_NORMAL if none was), and 'open-flags' is notified only
\* by a step that changes the value.
C22_GetOpenFlagsReturnsSetFlags ==
  [][/\ got'.fn = "gtk_places_view_get_open_flags"
          => got'.flags = pv.open_flags
     /\ "open-flags" \in notified'
          => pv'.open_flags # pv.open_flags]_allvars

\* C23: after gtk_places_view_set_local_only (view, v),
\* gtk_places_view_get_local_only returns TRUE exactly when v is not 0, and
\* the action bar and the network grid are visible exactly when it returns
\* FALSE.
C23_LocalOnlyRoundTrip ==
  [][\A v \in Gbooleans :
       gtk_places_view_set_local_only(v) =>
         /\ gtk_places_view_real_get_local_only(pv') # 0 <=> v # 0
         /\ pv'.actionbar.visible
              <=> gtk_places_view_real_get_local_only(pv') = 0
         /\ pv'.network_grid.visible
              <=> gtk_places_view_real_get_local_only(pv') = 0]_allvars

\* The address has a scheme the VFS supports and unsupported_protocols
\* does not list, the VFS supporting what SupportedUriSchemes names.
Connectable(address) ==
  /\ g_uri_parse_scheme(address) # NULL
  /\ \E supported_protocols \in SupportedUriSchemes :
       g_uri_parse_scheme(address) \in supported_protocols.schemes
  /\ g_uri_parse_scheme(address) \notin unsupported_protocols

MountRow(mount) == [volume |-> NULL, mount |-> mount]

\* C27: once a connection to a network address has succeeded, the row of
\* its mount is in the network list and not in the drives list; and of the
\* rows of mounts without volume, those with a remote root are in the
\* network list and those with a local root in the drives list.
C27_NetworkMountInNetworkList ==
  [][/\ \A operation \in mounting :
          location_mount_ready_callback(operation, "ok") =>
            /\ MountRow(operation.target) \in Range(pv'.network_listbox)
            /\ MountRow(operation.target) \notin Range(pv'.drives_listbox)
     /\ \A row \in Range(pv'.network_listbox) \cup Range(pv'.drives_listbox) :
          row.volume = NULL =>
            IF g_file_is_native(row.mount)
              THEN row \in Range(pv'.drives_listbox)
                     /\ row \notin Range(pv'.network_listbox)
              ELSE row \in Range(pv'.network_listbox)
                     /\ row \notin Range(pv'.drives_listbox)]_allvars

\* The rows of the drives list and of the network list.
Rows == Range(pv.drives_listbox) \cup Range(pv.network_listbox)

\* C28: no row is shown for a volume of a drive that can be ejected, for a
\* volume that is an external device or whose drive has removable media,
\* or for a mount whose drive has removable media, whatever the volume
\* monitor reports.
C28_NoRemovableDevices ==
  \A row \in Rows :
    /\ row.volume # NULL =>
         /\ ~is_external_device(monitor, row.volume)
         /\ g_volume_get_drive(row.volume) # NULL =>
              /\ ~g_drive_can_eject(g_volume_get_drive(row.volume))
              /\ ~g_drive_is_media_removable(g_volume_get_drive(row.volume))
    /\ (row.mount # NULL /\ g_mount_get_drive(row.mount) # NULL) =>
         ~g_drive_is_media_removable(g_mount_get_drive(row.mount))

\* The volume monitor reports a volume on an ejectable drive, one on a
\* drive with removable media, one that is external by its mount, and a
\* mount without volume on a drive with removable media; next to them a
\* fixed volume and a network volume, which are shown.
C28_Witness ==
  /\ monitor["usbstick"] = "mounted"
  /\ monitor["sdcard"] = "unmounted"
  /\ monitor["backup"] = "mounted"
  /\ "/media/cdrom" \in mounts
  /\ [volume |-> "volume1", mount |-> NULL] \in Range(pv.drives_listbox)
  /\ [volume |-> "share", mount |-> "smb://share"]
       \in Range(pv.network_listbox)
  /\ Cardinality(Rows) = 2

\* C31: the descriptor of an instance (bus name and object path) is the one
\* given to gtk_cloud_provider_new, and as long as the instance lives no
\* step (the completion of the proxy construction, an update, the
\* completion of a call) changes it.
C31_DescriptorIsFixed ==
  [][\A i \in Instances :
       /\ \A d \in Descriptors :
            gtk_cloud_provider_new(i, d) => DescriptorOf(priv'[i]) = d
       /\ (Live(i) /\ life'[i] = "live") =>
            DescriptorOf(priv'[i]) = DescriptorOf(priv[i])]_vars

\* C31 witness: an instance made for org.example.Cloud has been connected,
\* updated by a user and has had a name and a status replied, and still
\* carries that descriptor.
C31_Witness ==
  \E i \in Instances :
    /\ Live(i)
    /\ DescriptorOf(priv[i]) = OtherDescriptor
    /\ priv[i].proxy = GDBusProxy
    /\ hist[i].n_update >= 1
    /\ hist[i].last_name.tag = "ok"
    /\ hist[i].last_status.tag = "ok"
    /\ priv[i].name \in Names

\* C32: an update made on a live instance while its proxy construction is
\* in flight issues no call and leaves nothing behind for the construction's
\* completion to act on (private data, calls and construction are as
\* before); and the successful completion of the construction, however many
\* updates were made before it, puts exactly one GetName and one GetStatus
\* call in flight, the first two calls of the instance.
C32_DroppedRefreshesNotReplayed ==
  [][\A i \in Instances :
       (Live(i) /\ connecting[i]) =>
         /\ hist'[i].n_update = hist[i].n_update + 1 =>
              /\ calls'[i] = calls[i]
              /\ priv'[i] = priv[i]
              /\ connecting'[i]
              /\ hist'[i].n_issued = hist[i].n_issued
              /\ hist'[i].n_refresh = hist[i].n_refresh
         /\ (~connecting'[i] /\ priv'[i].proxy # NULL) =>
              /\ calls[i] = {}
              /\ Cardinality(calls'[i]) = 2
              /\ {c.method : c \in calls'[i]} = {"GetName", "GetStatus"}
              /\ hist'[i].n_issued = 2
              /\ hist'[i].n_refresh = 1]_vars

\* C32 witness: a user called update during the construction, the
\* construction then succeeded, and the two calls of the one refresh made
\* are in flight.
C32_Witness ==
  \E i \in Instances :
    /\ Live(i)
    /\ priv[i].proxy = GDBusProxy
    /\ hist[i].n_update = MaxUpdates
    /\ hist[i].n_refresh = 1
    /\ hist[i].n_issued = 2
    /\ Cardinality(calls[i]) = 2

\* On a live instance a step emits one "changed" per call it completes (one
\* at most), and no other step emits.
OneChangedPerCall ==
  \A i \in Instances :
    (Live(i) /\ life'[i] = "live") =>
      /\ Cardinality(calls[i] \ calls'[i]) \in {0, 1}
      /\ n_changed'[i] = n_changed[i] + Cardinality(calls[i] \ calls'[i])

\* C33: given that the bus completes every call, every call in flight of a
\* live instance is eventually completed unless the instance is finalized
\* first (no call stays in flight from some point on for ever), its
\* completion emitting exactly one "changed"; and eventually,
\* for good, a live instance has no call in flight and has emitted as many
\* "changed" as it issued calls.
C33_EveryCallIsAnswered ==
  /\ [][OneChangedPerCall]_allvars
  /\ \A i \in Instances, c \in CallRecords :
       []<>(~Live(i) \/ c \notin calls[i])
  /\ \A i \in Instances :
       <>[](Live(i) => /\ calls[i] = {}
                       /\ n_changed[i] = hist[i].n_issued)

\* C33 witness: a live instance has made every refresh the bound allows,
\* all its calls have completed, one of them with an error, and it has
\* emitted one "changed" for each.
C33_Witness ==
  \E i \in Instances :
    /\ Live(i)
    /\ hist[i].n_refresh = MaxUpdates + 1
    /\ calls[i] = {}
    /\ hist[i].n_issued = 2 * (MaxUpdates + 1)
    /\ n_changed[i] = hist[i].n_issued
    /\ hist[i].last_status.tag = "error"

MountsInFlight(ops) == {op \in ops : op.kind \in {"location", "volume"}}

\* C35: after every step connection_cancellable is non-NULL exactly if a
\* mount started by mount_location or mount_volume is in flight; and a
\* cancellable whose mount is still in flight after the step is still the
\* stored one: no completion of another operation has cleared it and no
\* mount start has overwritten it.
C35_CancellableTracksMounts ==
  [][/\ pv'.connection_cancellable # NoOperation
          <=> MountsInFlight(mounting') # {}
     /\ pv.connection_cancellable \in MountsInFlight(mounting')
          => pv'.connection_cancellable = pv.connection_cancellable]_allvars

\* C36: Return, Enter or space on a focused row that has a mount emits
\* 'open-location' with GTK_PLACES_OPEN_NEW_TAB when Shift is held and that
\* flag is enabled, with GTK_PLACES_OPEN_NEW_WINDOW when Control is held
\* and that flag is enabled, and with GTK_PLACES_OPEN_NORMAL otherwise.
C36_KeyboardModifierChoosesFlag ==
  [][\A row \in Volumes, state \in {"none", "shift", "control"} :
       (on_key_press_event(row, state) /\ monitor[row] = "mounted") =>
         opened'.flags =
           CASE state = "shift" /\ GTK_PLACES_OPEN_NEW_TAB \in pv.open_flags
                  -> {GTK_PLACES_OPEN_NEW_TAB}
             [] state = "control"
                  /\ GTK_PLACES_OPEN_NEW_WINDOW \in pv.open_flags
                  -> {GTK_PLACES_OPEN_NEW_WINDOW}
             [] OTHER -> {GTK_PLACES_OPEN_NORMAL}]_allvars

\* The rows of the drives list followed by those of the network list.
AllRows == pv.drives_listbox \o pv.network_listbox

\* The number of rows that show volume `volume`, and of those that show
\* mount `mount` (as their volume's mount or on its own).
RowsOfVolume(volume) ==
  Cardinality({k \in 1..Len(AllRows) : AllRows[k].volume = volume})
RowsOfMount(mount) ==
  Cardinality({k \in 1..Len(AllRows) : AllRows[k].mount = mount})

\* C37: after update_places every volume and every mount the volume monitor
\* reports has at most one row in the drives and network lists together, a
\* mount that has a volume being shown in its volume's row; every row shows
\* what the monitor reports now (none is left from an earlier population);
\* and update_places run again on the same monitor state leaves the same
\* rows.
C37_OneRowPerPlace ==
  /\ \A volume \in GVolumes : RowsOfVolume(volume) <= 1
  /\ \A mount \in g_volume_monitor_get_mounts(monitor, mounts) :
       /\ RowsOfMount(mount) <= 1
       /\ g_mount_get_volume(mount) # NULL =>
            \A row \in Rows :
              row.mount = mount => row.volume = g_mount_get_volume(mount)
  /\ \A row \in Rows :
       IF row.volume # NULL
         THEN /\ monitor[row.volume] # "absent"
              /\ row.mount = g_volume_get_mount(monitor, row.volume)
         ELSE row.mount \in mounts
  /\ update_places(pv, monitor, mounts, servers) = pv

\* C37 witness: the monitor has reported changes several times and now
\* reports a mounted volume on a drive, a mounted network volume without
\* drive and two mounts without volume; each has its one row, the mounts
\* of the volumes in their volumes' rows.
C37_Witness ==
  /\ monitor["volume1"] = "mounted"
  /\ monitor["share"] = "mounted"
  /\ {"/mnt/data", "sftp://host"} \subseteq mounts
  /\ RowsOfVolume("volume1") = 1
  /\ RowsOfMount("/") = 1
  /\ RowsOfMount("smb://share") = 1
  /\ RowsOfMount("/mnt/data") = 1
  /\ RowsOfMount("sftp://host") = 1
  /\ [volume |-> "volume1", mount |-> "/"] \in Rows
  /\ Len(AllRows) = 4

=============================================================================
